---------------------------- MODULE Spec2Model ----------------------------
(***************************************************************************)
(* Session store, payment gateway calls and finalize reconciler of the EV  *)
(* portal add-on (addons/ev_portal/rootfs/app: db.py, square.py,           *)
(* finalize.py).                                                           *)
(*                                                                         *)
(* SpecStore    : the SQLite session store under store calls that are      *)
(*                handed to worker threads and run in any order.           *)
(* SpecFinalize : the finalize_session consumer, one step per await,       *)
(*                against the gateway and a store whose calls may raise.   *)
(***************************************************************************)
EXTENDS Integers, Sequences, FiniteSets, TLC

(***************************************************************************)
(* Bounds of the model.                                                    *)
(***************************************************************************)
MaxAmount   == 2    \* amounts in cents range over 0..MaxAmount
MaxClock    == 1    \* _now() ranges over 0..MaxClock
MaxInFlight == 2    \* store calls running in worker threads at once
MaxCalls    == 3    \* store calls made in one behaviour of SpecStore
MaxQueue    == 1    \* finalize payloads waiting in the topic queue

(***************************************************************************)
(* Program constants.                                                      *)
(***************************************************************************)
_MAX_RETRIES == 3

NULL    == "NULL"        \* SQL NULL / Python None in a text column
NullInt == 0 - 1         \* SQL NULL / Python None in an integer column
NoError == <<>>          \* SQL NULL in last_error (error texts are tuples)

Falsy(v) == v = NULL \/ v = ""     \* Python truthiness of an optional str

Bookings == {"b1", "b2"}
ChargerId == "ch1"
IdempotencyKey(charger, booking) == <<"ev", charger, booking>>
Keys == {IdempotencyKey(ChargerId, b) : b \in Bookings}

States == {"CREATED", "AWAITING_PAYMENT_INFO", "AUTH_REQUESTED", "AUTHORIZED",
           "CAPTURED", "VOIDED", "CANCELED", "REFUNDED", "FAILED"}

VARIABLES
    sessions,   \* the sessions table: idempotency_key -> row, rows present only
    now,        \* the clock _now() reads
    inflight,   \* store calls handed to worker threads and not yet run
    batch,      \* history: the calls run since the store was last quiescent
    batchPre,   \* history: the table when that batch began
    submitted,  \* history: the number of store calls made so far
    holds,      \* gateway: pre-authorisation payment id -> status
    charges,    \* gateway: idempotency key of a direct charge -> its payment
    queue,      \* state._topic_queues[finalize topic]: payloads not yet taken
    fin,        \* finalize_session_consumer: where it is and its locals
    log,        \* history: gateway calls, sleeps and store writes of this payload
    dbErrors,   \* history: store calls that raised while handling the payload
    exit,       \* history: how _handle_finalize last ended
    settled,    \* history: capture / charge calls that took money
    lock,       \* state._session_lock: holder and the callers queued on it
    topicQ,     \* state._topic_queues: response topic -> messages not yet taken
    bus,        \* requests published and not yet answered by the controller
    pending,    \* state._pending_sessions: token -> {booking_id, amount_cents}
    reqs,       \* the HTTP requests: where each handler is and its locals
    minted,     \* the number of tokens uuid4 has produced
    adm,        \* the admin requests: where each handler is and its locals
    audit,      \* the audit_log table, oldest entry first
    refunds     \* gateway: the refunds it has made

storeVars == <<sessions, now, inflight, batch, batchPre, submitted>>
finVars   == <<holds, charges, queue, fin, log, dbErrors, exit, settled>>
portalVars == <<lock, topicQ, bus, pending, reqs, minted>>
adminVars == <<adm, audit, refunds>>
otherVars == <<portalVars, adminVars>>
vars      == <<storeVars, finVars, portalVars, adminVars>>

(***************************************************************************)
(* db.py: the sessions table.                                              *)
(***************************************************************************)
\* Column defaults of CREATE TABLE sessions and of _migrate_sessions.
ColumnDefaults ==
    [ state                     |-> "CREATED",
      authorized                |-> 0,
      authorized_amount_cents   |-> 0,
      captured_amount_cents     |-> NullInt,
      square_customer_id        |-> NULL,
      square_card_id            |-> NULL,
      square_payment_id         |-> NULL,
      square_capture_payment_id |-> NULL,
      last_error                |-> NoError,
      note                      |-> NULL,
      is_deleted                |-> 0 ]

\* Columns declared NOT NULL with no default: an INSERT must supply them.
RequiredColumns == {"idempotency_key", "booking_id", "session_id",
                    "created_at", "updated_at"}

\* idx_sessions_session_id: no two rows share a session_id.
SessionIdUnique(tbl) ==
    \A k1, k2 \in DOMAIN tbl : tbl[k1].session_id = tbl[k2].session_id => k1 = k2

\* "state = CASE WHEN sessions.state IN ('AUTHORIZED','CAPTURED')
\*          THEN sessions.state ELSE excluded.state END"
UpsertStateProtectsSettled(old, new) ==
    IF old \in {"AUTHORIZED", "CAPTURED", "VOIDED", "CANCELED", "REFUNDED"}
    THEN old ELSE new
UpsertStateUnprotected(old, new) == new
UpsertStateOnlyAuthorized(old, new) == IF old = "AUTHORIZED" THEN old ELSE new
UpsertState(old, new) ==
    IF old \in {"AUTHORIZED", "CAPTURED"} THEN old ELSE new

\* The row dict _upsert_session_sync builds from its argument.
UpsertDict(session, t) ==
    ("updated_at" :> t) @@ session @@ ("created_at" :> t)

\* (UpsertTableKeepsProtectedRow is a faulty variant of UpsertTable: a row in
\* a protected state is left as it is.)
UpsertTableKeepsProtectedRow(tbl, session, t) ==
    LET row == UpsertDict(session, t)
        k   == row.idempotency_key
    IN  IF k \in DOMAIN tbl
        THEN IF tbl[k].state \in {"AUTHORIZED", "CAPTURED"}
             THEN tbl
             ELSE [tbl EXCEPT ![k] =
                     [c \in DOMAIN tbl[k] |->
                        IF c \in DOMAIN row \ {"idempotency_key", "created_at"}
                        THEN row[c] ELSE tbl[k][c]]]
        ELSE (k :> (row @@ ColumnDefaults)) @@ tbl

\* INSERT ... ON CONFLICT(idempotency_key) DO UPDATE SET ...: the table after
\* the statement (an IntegrityError leaves it as it was).
UpsertTable(tbl, session, t) ==
    LET row == UpsertDict(session, t)
        k   == row.idempotency_key
        new == IF k \in DOMAIN tbl
               THEN [c \in DOMAIN tbl[k] |->
                       IF c \in DOMAIN row \ {"idempotency_key", "created_at"}
                       THEN IF c = "state"
                            THEN UpsertState(tbl[k].state, row.state)
                            ELSE row[c]
                       ELSE tbl[k][c]]
               ELSE row @@ ColumnDefaults
        out == (k :> new) @@ tbl
    IN  IF RequiredColumns \subseteq DOMAIN new /\ SessionIdUnique(out)
        THEN out ELSE tbl

\* UPDATE sessions SET ... WHERE idempotency_key = ?: no row, no change.
UpdateTable(tbl, k, newRow) ==
    IF k \in DOMAIN tbl THEN [tbl EXCEPT ![k] = newRow] ELSE tbl

\* _mark_authorized_sync (MarkAuthorizedRowKeepsError is a faulty variant).
MarkAuthorizedRowKeepsError(r, payment_id, amount, card_meta, t) ==
    card_meta @@ [r EXCEPT !.state = "AUTHORIZED",
                           !.authorized = 1,
                           !.authorized_amount_cents = amount,
                           !.square_payment_id = payment_id,
                           !.updated_at = t]
MarkAuthorizedRow(r, payment_id, amount, card_meta, t) ==
    card_meta @@ [r EXCEPT !.state = "AUTHORIZED",
                           !.authorized = 1,
                           !.authorized_amount_cents = amount,
                           !.square_payment_id = payment_id,
                           !.last_error = NoError,
                           !.updated_at = t]

\* _mark_failed_sync (MarkFailedRowNoText and MarkFailedRowKeepsState are
\* faulty variants).
MarkFailedRowNoText(r, error, t) ==
    [r EXCEPT !.state = "FAILED", !.updated_at = t]
MarkFailedRowKeepsState(r, error, t) ==
    [r EXCEPT !.last_error = error, !.updated_at = t]
MarkFailedRow(r, error, t) ==
    [r EXCEPT !.state = "FAILED", !.last_error = error, !.updated_at = t]

\* _mark_captured_sync (MarkCapturedRowClearsError is a faulty variant).
MarkCapturedRowClearsError(r, capture_id, amount, t) ==
    [r EXCEPT !.state = "CAPTURED",
              !.square_capture_payment_id = capture_id,
              !.captured_amount_cents = amount,
              !.last_error = NoError,
              !.updated_at = t]
MarkCapturedRow(r, capture_id, amount, t) ==
    [r EXCEPT !.state = "CAPTURED",
              !.square_capture_payment_id = capture_id,
              !.captured_amount_cents = amount,
              !.updated_at = t]

\* _mark_voided_sync (MarkVoidedRowKeepsAmount is a faulty variant).
MarkVoidedRowKeepsAmount(r, payment_id, t) ==
    [r EXCEPT !.state = "VOIDED",
              !.square_capture_payment_id = payment_id,
              !.updated_at = t]
MarkVoidedRow(r, payment_id, t) ==
    [r EXCEPT !.state = "VOIDED",
              !.captured_amount_cents = 0,
              !.square_capture_payment_id = payment_id,
              !.updated_at = t]

MarkCanceledRow(r, payment_id, t) ==
    [r EXCEPT !.state = "CANCELED",
              !.square_capture_payment_id = payment_id,
              !.captured_amount_cents = 0,
              !.updated_at = t]

MarkRefundedRow(r, refund_id, amount, t) ==
    [r EXCEPT !.state = "REFUNDED",
              !.square_capture_payment_id = refund_id,
              !.captured_amount_cents = amount,
              !.updated_at = t]

AddNoteRow(r, note, t) == [r EXCEPT !.note = note, !.updated_at = t]

SoftDeleteRow(r, t) == [r EXCEPT !.is_deleted = 1, !.updated_at = t]

MarkAuthorized(tbl, k, payment_id, amount, card_meta, t) ==
    IF k \in DOMAIN tbl
    THEN UpdateTable(tbl, k, MarkAuthorizedRow(tbl[k], payment_id, amount, card_meta, t))
    ELSE tbl
MarkFailed(tbl, k, error, t) ==
    IF k \in DOMAIN tbl THEN UpdateTable(tbl, k, MarkFailedRow(tbl[k], error, t)) ELSE tbl
MarkCaptured(tbl, k, capture_id, amount, t) ==
    IF k \in DOMAIN tbl
    THEN UpdateTable(tbl, k, MarkCapturedRow(tbl[k], capture_id, amount, t)) ELSE tbl
MarkVoided(tbl, k, payment_id, t) ==
    IF k \in DOMAIN tbl THEN UpdateTable(tbl, k, MarkVoidedRow(tbl[k], payment_id, t)) ELSE tbl
MarkCanceled(tbl, k, payment_id, t) ==
    IF k \in DOMAIN tbl THEN UpdateTable(tbl, k, MarkCanceledRow(tbl[k], payment_id, t)) ELSE tbl
MarkRefunded(tbl, k, refund_id, amount, t) ==
    IF k \in DOMAIN tbl
    THEN UpdateTable(tbl, k, MarkRefundedRow(tbl[k], refund_id, amount, t)) ELSE tbl
AddNote(tbl, k, note, t) ==
    IF k \in DOMAIN tbl THEN UpdateTable(tbl, k, AddNoteRow(tbl[k], note, t)) ELSE tbl
\* soft_delete (SoftDeleteRemoves is a faulty variant: DELETE FROM sessions).
SoftDeleteRemoves(tbl, k, t) == [x \in DOMAIN tbl \ {k} |-> tbl[x]]
SoftDelete(tbl, k, t) ==
    IF k \in DOMAIN tbl THEN UpdateTable(tbl, k, SoftDeleteRow(tbl[k], t)) ELSE tbl

\* SELECT * FROM sessions WHERE booking_id = ? ORDER BY updated_at DESC LIMIT 1:
\* the rows the statement may return (ties are in no fixed order).
SessionsByBookingId(tbl, booking_id) ==
    LET hits == {k \in DOMAIN tbl : tbl[k].booking_id = booking_id}
    IN  {k \in hits : \A j \in hits : tbl[j].updated_at <= tbl[k].updated_at}

(***************************************************************************)
(* finalize.py: the locals of _handle_finalize and the consumer at rest.   *)
(***************************************************************************)
NoRowRec == [state |-> "ABSENT"]      \* row is None / not read yet

FinIdle ==
    [ pc         |-> "idle",     \* "idle": awaiting queue.get()
      booking_id |-> NULL,
      final      |-> NullInt,    \* final_amount_cents
      row        |-> NoRowRec,
      attempt    |-> 0,
      last_error |-> NoError,
      resume     |-> "idle",     \* the loop a sleep returns to
      error      |-> NoError,    \* the text handed to db.mark_failed
      res_id     |-> NULL,       \* the id of the payment the gateway returned
      res_amt    |-> NullInt ]   \* and its amount_money.amount

\* The consumer is at rest on an empty queue and the gateway knows no payment.
FinQuiet ==
    /\ holds = <<>>
    /\ charges = <<>>
    /\ queue = <<>>
    /\ fin = FinIdle
    /\ log = <<>>
    /\ dbErrors = 0
    /\ exit = "none"
    /\ settled = 0

(***************************************************************************)
(* lifespan.py / state.py: the coordination objects of the HTTP handlers   *)
(* right after start-up, and the locals of a handler that has not begun.   *)
(***************************************************************************)
MaxRequests == 2     \* HTTP requests to /start and /submit_payment in a run
Rids == 1..MaxRequests
NoRid == 0

Topics == {"booking", "authorize"}

\* asyncio.Lock(): not locked, nobody queued.
LockFree == [holder |-> NoRid, waiters |-> <<>>]

ReqNone ==
    [ kind       |-> "none",      \* "start" or "submit"
      pc         |-> "none",      \* the await the handler is at
      uid        |-> NULL,        \* the token: minted by /start, sent to /submit_payment
      wallet     |-> FALSE,       \* is_wallet
      booking_id |-> NULL,
      amount     |-> NullInt,     \* amount_cents
      payment_id |-> NULL,
      meta       |-> [square_customer_id |-> NULL, square_card_id |-> NULL],
      err        |-> NoError,     \* err_msg of a gateway error
      result     |-> "none",      \* the response the handler returned
      \* history of this request
      got        |-> NoRid,       \* the round trip whose response it consumed
      stale      |-> {},          \* the round trips whose responses its queue held at the drain
      steps      |-> <<>>,        \* the steps of its request/response cycle
      seen       |-> "UNREAD",    \* the state get_session returned
      rec        |-> "UNREAD",    \* the state get_session_by_uid returned
      via        |-> "none",      \* how the token was validated
      calls      |-> 0,           \* gateway calls it made
      writes     |-> 0 ]          \* store writes it made

PortalQuiet ==
    /\ lock = LockFree
    /\ topicQ = [t \in Topics |-> <<>>]
    /\ bus = {}
    /\ pending = <<>>
    /\ reqs = [r \in Rids |-> ReqNone]
    /\ minted = 0

MaxAdmin == 2
AdminIds == 1..MaxAdmin

AdmNone ==
    [ action     |-> "none",      \* "capture", "void", "refund" or "reauthorize"
      pc         |-> "none",      \* the await the handler is at
      amount     |-> NullInt,     \* amount_cents of the request (None: absent)
      before     |-> NoRowRec,    \* session: the row _get_or_404 returned
      gw         |-> [ok |-> FALSE, id |-> NULL, amount |-> NullInt],  \* result
      idem       |-> <<>>,        \* reauth_idem: the key sent to the gateway
      after      |-> NoRowRec,    \* after: the row read again
      result     |-> "none",      \* the response the handler returned
      \* history of this request
      calls      |-> 0,           \* gateway calls it made
      writes     |-> 0 ]          \* store writes it made

AdminQuiet ==
    /\ adm = [a \in AdminIds |-> AdmNone]
    /\ audit = <<>>
    /\ refunds = <<>>

(***************************************************************************)
(* SpecStore: store calls from the HTTP handlers, the reconciler and the   *)
(* admin actions.  Every public coroutine of db.py hands one synchronous   *)
(* function to asyncio.to_thread; each runs one SQL statement and commits, *)
(* and SQLite applies the statements of the threads one at a time, in any  *)
(* order.                                                                  *)
(***************************************************************************)
Tokens == {"t1", "t2"}
StoreBookings == {"b1"}

\* The dict /start (AWAITING_PAYMENT_INFO) and /submit_payment
\* (AUTH_REQUESTED) pass to upsert_session; the tests also upsert AUTHORIZED.
SessionDict(b, tok, st, amt) ==
    [ idempotency_key         |-> IdempotencyKey(ChargerId, b),
      booking_id              |-> b,
      session_id              |-> tok,
      state                   |-> st,
      authorized_amount_cents |-> amt ]

CardMeta   == [square_customer_id |-> "cust1", square_card_id |-> "card1"]
WalletMeta == [square_customer_id |-> "",      square_card_id |-> ""]

UpsertCalls ==
    { <<"upsert", s.idempotency_key, s>> :
        s \in { SessionDict(b, tok, st, amt) :
                  b \in StoreBookings, tok \in Tokens,
                  st \in {"AWAITING_PAYMENT_INFO", "AUTH_REQUESTED", "AUTHORIZED"},
                  amt \in {MaxAmount - 1} } }

MarkCalls ==
    UNION { { <<"mark_authorized", k, "pay1", MaxAmount - 1, CardMeta>>,
              <<"mark_authorized", k, "pay2", MaxAmount, WalletMeta>>,
              <<"mark_failed", k, <<"declined">> >>,
              <<"mark_captured", k, "pay1", MaxAmount - 1>>,
              <<"mark_voided", k, "pay1">>,
              <<"mark_canceled", k, "pay1">>,
              <<"mark_refunded", k, "ref1", MaxAmount - 1>>,
              <<"add_note", k, "note1">>,
              <<"soft_delete", k>> } :
            k \in {IdempotencyKey(ChargerId, b) : b \in StoreBookings} }

StoreCalls == UpsertCalls \cup MarkCalls

\* The state column of a key's row, "ABSENT" when the key has no row.
RowState(tbl, k) == IF k \in DOMAIN tbl THEN tbl[k].state ELSE "ABSENT"

\* The table after one store call ran at time t.
RunCall(tbl, c, t) ==
    CASE c[1] = "upsert"          -> UpsertTable(tbl, c[3], t)
      [] c[1] = "mark_authorized" -> MarkAuthorized(tbl, c[2], c[3], c[4], c[5], t)
      [] c[1] = "mark_failed"     -> MarkFailed(tbl, c[2], c[3], t)
      [] c[1] = "mark_captured"   -> MarkCaptured(tbl, c[2], c[3], c[4], t)
      [] c[1] = "mark_voided"     -> MarkVoided(tbl, c[2], c[3], t)
      [] c[1] = "mark_canceled"   -> MarkCanceled(tbl, c[2], c[3], t)
      [] c[1] = "mark_refunded"   -> MarkRefunded(tbl, c[2], c[3], c[4], t)
      [] c[1] = "add_note"        -> AddNote(tbl, c[2], c[3], t)
      [] c[1] = "soft_delete"     -> SoftDelete(tbl, c[2], t)

Tick ==
    /\ now < MaxClock
    /\ now' = now + 1
    /\ UNCHANGED <<sessions, inflight, batch, batchPre, submitted, finVars>>

\* await asyncio.to_thread(_xxx_sync, ...): the call starts in a worker thread.
StoreSubmit(c) ==
    /\ c \notin inflight
    /\ submitted < MaxCalls
    /\ submitted' = submitted + 1
    /\ Cardinality(inflight) < MaxInFlight
    /\ inflight' = inflight \cup {c}
    /\ batch' = IF inflight = {} THEN <<>> ELSE batch
    /\ batchPre' = IF inflight = {} THEN sessions ELSE batchPre
    /\ UNCHANGED <<sessions, now, finVars>>

\* The worker thread runs its statement and commits.
StoreRun(c) ==
    /\ c \in inflight
    /\ sessions' = RunCall(sessions, c, now)
    /\ inflight' = inflight \ {c}
    /\ batch' = Append(batch, <<c, RowState(sessions, c[2])>>)
    /\ UNCHANGED <<now, batchPre, submitted, finVars>>

\* No store call is in flight and none was made.
StoreQuiet ==
    /\ inflight = {}
    /\ batch = <<>>
    /\ batchPre = <<>>
    /\ submitted = 0

StoreInit ==
    /\ sessions = <<>>
    /\ now = 0
    /\ StoreQuiet
    /\ FinQuiet
    /\ PortalQuiet
    /\ AdminQuiet

StoreNext ==
    \/ Tick /\ UNCHANGED otherVars
    \/ \E c \in StoreCalls : StoreSubmit(c) /\ UNCHANGED otherVars
    \/ \E c \in StoreCalls : StoreRun(c) /\ UNCHANGED otherVars

SpecStore == StoreInit /\ [][StoreNext]_vars

\* SpecStoreTwo: the same calls on the key of booking b1 while the table
\* holds the row of another booking, b2, captured earlier under token t2.
OtherKey == IdempotencyKey(ChargerId, "b2")

OtherRowTable ==
    LET request == UpsertTable(<<>>, SessionDict("b2", "t2", "AUTH_REQUESTED",
                                                 MaxAmount - 1), 0)
        auth    == MarkAuthorized(request, OtherKey, "pay0", MaxAmount - 1, CardMeta, 0)
    IN  MarkCaptured(auth, OtherKey, "pay0", MaxAmount - 1, 0)

StoreTwoInit ==
    /\ sessions = OtherRowTable
    /\ now = 0
    /\ StoreQuiet
    /\ FinQuiet
    /\ PortalQuiet
    /\ AdminQuiet

SpecStoreTwo == StoreTwoInit /\ [][StoreNext]_vars

(***************************************************************************)
(* square.py: the gateway calls the reconciler makes.  Each call either    *)
(* returns the payment object or raises RuntimeError; a call that raises   *)
(* changed nothing at the gateway.  The gateway completes or cancels only  *)
(* a payment that is APPROVED, and answers a direct charge whose           *)
(* idempotency key it has seen with the payment it created for that key.   *)
(***************************************************************************)
CancelError  == <<"cancel error">>
CaptureError == <<"capture error">>
ChargeError  == <<"charge error">>
DbError      == <<"db error">>

\* cancel_payment(payment_id) can return: POST /v2/payments/{id}/cancel.
CancelCanSucceed(h, payment_id) ==
    payment_id \in DOMAIN h /\ h[payment_id] = "APPROVED"
CancelEffect(h, payment_id) == [h EXCEPT ![payment_id] = "CANCELED"]

\* capture_payment(payment_id, final_amount_cents) can return: PUT the amount,
\* then POST /v2/payments/{id}/complete.
\* (CaptureCanSucceedAgain is a faulty variant: a completed payment can be
\* completed once more.)
CaptureCanSucceedAgain(h, payment_id) ==
    payment_id \in DOMAIN h /\ h[payment_id] \in {"APPROVED", "COMPLETED"}
CaptureCanSucceed(h, payment_id) ==
    payment_id \in DOMAIN h /\ h[payment_id] = "APPROVED"
CaptureEffect(h, payment_id) == [h EXCEPT ![payment_id] = "COMPLETED"]

\* charge_idem = f"fin:{idempotency_key}"[:45]
\* (ChargeIdemPerAttempt is a faulty variant: a key that differs by attempt.)
ChargeIdemPerAttempt(key) == <<"fin", key, fin.attempt>>
ChargeIdem(key) == <<"fin", key>>

\* The id the gateway gives the payment of a direct charge.
ChargePaymentId(idem) == IF idem[2][3] = "b1" THEN "chg_b1" ELSE "chg_b2"

\* charge_card_payment(..., amount_cents, idempotency_key) can return: a new
\* key creates a payment, a seen key with the same body returns that payment.
ChargeCanSucceed(ch, idem, amount) ==
    idem \in DOMAIN ch => ch[idem].amount = amount
ChargeEffect(ch, idem, amount) ==
    IF idem \in DOMAIN ch THEN ch
    ELSE (idem :> [id |-> ChargePaymentId(idem), amount |-> amount]) @@ ch

(***************************************************************************)
(* finalize.py: _handle_finalize and finalize_session_consumer, one action *)
(* per await.                                                              *)
(***************************************************************************)
\* The payloads the bus delivers on the finalize_session topic.
Payloads ==
    { [json_ok |-> TRUE, booking_id |-> "b1", final_amount_cents |-> a] :
        a \in 0..MaxAmount }
    \cup
    { [json_ok |-> TRUE,  booking_id |-> "b2", final_amount_cents |-> MaxAmount],
      [json_ok |-> TRUE,  booking_id |-> NULL, final_amount_cents |-> 0],
      [json_ok |-> TRUE,  booking_id |-> "b1", final_amount_cents |-> NullInt],
      [json_ok |-> FALSE, booking_id |-> NULL, final_amount_cents |-> NullInt] }

\* mqtt on_message: the listener puts the payload on the topic's queue.
Deliver(p) ==
    /\ Len(queue) < MaxQueue
    /\ queue' = Append(queue, p)
    /\ UNCHANGED <<storeVars, holds, charges, fin, log, dbErrors, exit, settled>>

\* _handle_finalize ends: it returns, or raises into the consumer's except
\* clause, which logs the exception.
Finish(f, how) ==
    /\ fin' = [f EXCEPT !.pc = "done"]
    /\ exit' = how

\* payload_str = await queue.get(); json.loads; the two payload checks.
FinGet ==
    /\ fin.pc = "idle"
    /\ queue # <<>>
    /\ queue' = Tail(queue)
    /\ LET p == Head(queue)
           f == [FinIdle EXCEPT !.booking_id = p.booking_id,
                                !.final = p.final_amount_cents]
       IN  IF ~p.json_ok \/ Falsy(p.booking_id) \/ p.final_amount_cents = NullInt
           THEN Finish(FinIdle, "return")
           ELSE fin' = [f EXCEPT !.pc = "lookup"] /\ exit' = "none"
    /\ UNCHANGED <<storeVars, holds, charges, log, dbErrors, settled>>

\* if current_state in ("CAPTURED", "VOIDED"): return
\* (AlreadySettledAnyFinal, AlreadySettledOrFailed and AlreadySettledOnlyCaptured
\* are faulty variants.)
AlreadySettledAnyFinal(st) == st \in {"CAPTURED", "VOIDED", "CANCELED", "REFUNDED"}
AlreadySettledOrFailed(st) == st \in {"CAPTURED", "VOIDED", "FAILED"}
AlreadySettledOnlyCaptured(st) == st = "CAPTURED"
AlreadySettled(st) == st \in {"CAPTURED", "VOIDED"}

\* exceeds_preauth = final_amount_cents > (row.get("authorized_amount_cents") or 0)
\* (ExceedsPreauthNever and ExceedsPreauthAtEqual are faulty variants.)
AuthorizedOrZero(row) ==
    IF row.authorized_amount_cents = NullInt THEN 0
    ELSE row.authorized_amount_cents
ExceedsPreauthNever(final, row) == FALSE
ExceedsPreauthAtEqual(final, row) == final >= AuthorizedOrZero(row)
ExceedsPreauth(final, row) == final > AuthorizedOrZero(row)

\* The first loop of a row that has a payment id, by final amount.
\* (BranchOfRefsFirst is a faulty variant: the overcharge branch looks for the
\* card and customer references before it voids the pre-authorisation.)
BranchOfRefsFirst(final, row) ==
    IF final = 0 THEN "void"
    ELSE IF ExceedsPreauth(final, row)
         THEN IF Falsy(row.square_card_id) \/ Falsy(row.square_customer_id)
              THEN "fail" ELSE "ovoid"
         ELSE "capture"
BranchOf(final, row) ==
    IF final = 0 THEN "void"
    ELSE IF ExceedsPreauth(final, row) THEN "ovoid" ELSE "capture"

\* After the best-effort void of the overcharge branch: the check of the
\* stored card and customer, then the direct-charge loop.
\* (AfterPreauthVoidNoCheck is a faulty variant.)
AfterPreauthVoidNoCheck(f) == [f EXCEPT !.pc = "charge", !.attempt = 1]
AfterPreauthVoid(f) ==
    IF Falsy(f.row.square_card_id) \/ Falsy(f.row.square_customer_id)
    THEN [f EXCEPT !.pc = "fail",
                   !.error = <<"overcharge: missing card_id or customer_id", 0,
                               NoError>>]
    ELSE [f EXCEPT !.pc = "charge", !.attempt = 1]

\* The text of mark_failed when a loop has used all its attempts.
ExhaustedText(loop, e) ==
    CASE loop = "void"    -> <<"void failed after", _MAX_RETRIES, e>>
      [] loop = "charge"  -> <<"direct charge failed after", _MAX_RETRIES, e>>
      [] loop = "capture" -> <<"capture failed after", _MAX_RETRIES, e>>

\* except Exception as exc: in the loop `loop`, with str(exc) = e.
\* (MoreAttemptsOffByOne is a faulty variant of the test before the sleep.)
MoreAttemptsOffByOne(f) == f.attempt <= _MAX_RETRIES
MoreAttempts(f) == f.attempt < _MAX_RETRIES
\* (AfterExceptionVoidFatal is a faulty variant: the overcharge branch's void
\* loop, out of attempts, gives up like the other loops.)
AfterExceptionVoidFatal(f, loop, e) ==
    IF MoreAttempts(f)
    THEN [f EXCEPT !.pc = "sleep", !.resume = loop,
                   !.last_error = IF loop = "ovoid" THEN @ ELSE e]
    ELSE [f EXCEPT !.pc = "fail", !.last_error = e,
                   !.error = ExhaustedText(IF loop = "ovoid" THEN "void" ELSE loop, e)]
AfterException(f, loop, e) ==
    IF MoreAttempts(f)
    THEN [f EXCEPT !.pc = "sleep", !.resume = loop,
                   !.last_error = IF loop = "ovoid" THEN @ ELSE e]
    ELSE IF loop = "ovoid"
         THEN AfterPreauthVoid(f)
         ELSE [f EXCEPT !.pc = "fail", !.last_error = e,
                        !.error = ExhaustedText(loop, e)]

\* row = await db.get_session_by_booking_id(booking_id), and the checks up to
\* the first loop.
FinLookup ==
    /\ fin.pc = "lookup"
    /\ \/ /\ Finish(fin, "raise")
          /\ dbErrors' = dbErrors + 1
       \/ /\ SessionsByBookingId(sessions, fin.booking_id) = {}
          /\ Finish(fin, "return")
          /\ UNCHANGED dbErrors
       \/ /\ \E k \in SessionsByBookingId(sessions, fin.booking_id) :
               LET row == sessions[k]
                   f   == [fin EXCEPT !.row = row]
               IN  IF AlreadySettled(row.state)
                   THEN Finish(f, "return")
                   ELSE /\ exit' = exit
                        /\ fin' =
                             IF Falsy(row.square_payment_id)
                             THEN [f EXCEPT !.pc = "fail",
                                            !.error = <<"missing square_payment_id for capture",
                                                        0, NoError>>]
                             ELSE [f EXCEPT !.pc = BranchOf(fin.final, row),
                                            !.attempt = 1]
          /\ UNCHANGED dbErrors
    /\ UNCHANGED <<storeVars, holds, charges, queue, log, settled>>

\* await square.cancel_payment(payment_id=square_payment_id), in the
\* zero-amount loop ("void") or the overcharge branch's step A ("ovoid").
FinCancelCall ==
    /\ fin.pc \in {"void", "ovoid"}
    /\ LET pay == fin.row.square_payment_id
       IN  \/ /\ CancelCanSucceed(holds, pay)
              /\ holds' = CancelEffect(holds, pay)
              /\ log' = Append(log, <<"cancel", pay, 0, TRUE>>)
              /\ fin' = IF fin.pc = "void"
                        THEN [fin EXCEPT !.pc = "void_mark", !.res_id = pay]
                        ELSE AfterPreauthVoid(fin)
           \/ /\ holds' = holds
              /\ log' = Append(log, <<"cancel", pay, 0, FALSE>>)
              /\ fin' = AfterException(fin, fin.pc, CancelError)
    /\ UNCHANGED <<storeVars, charges, queue, dbErrors, exit, settled>>

\* await square.capture_payment(payment_id, final_amount_cents)
FinCaptureCall ==
    /\ fin.pc = "capture"
    /\ LET pay == fin.row.square_payment_id
       IN  \/ /\ CaptureCanSucceed(holds, pay)
              /\ holds' = CaptureEffect(holds, pay)
              /\ settled' = settled + 1
              /\ log' = Append(log, <<"capture", pay, fin.final, TRUE>>)
              /\ fin' = [fin EXCEPT !.pc = "capture_mark", !.res_id = pay,
                                    !.res_amt = fin.final]
           \/ /\ holds' = holds
              /\ settled' = settled
              /\ log' = Append(log, <<"capture", pay, fin.final, FALSE>>)
              /\ fin' = AfterException(fin, "capture", CaptureError)
    /\ UNCHANGED <<storeVars, charges, queue, dbErrors, exit>>

\* await square.charge_card_payment(card_id, customer_id, booking_id,
\*                                  amount_cents, idempotency_key=charge_idem)
FinChargeCall ==
    /\ fin.pc = "charge"
    /\ LET idem == ChargeIdem(fin.row.idempotency_key)
       IN  \/ /\ ChargeCanSucceed(charges, idem, fin.final)
              /\ charges' = ChargeEffect(charges, idem, fin.final)
              /\ settled' = IF idem \in DOMAIN charges THEN settled ELSE settled + 1
              /\ log' = Append(log, <<"charge", fin.row.square_card_id, fin.final,
                                   TRUE, idem>>)
              /\ fin' = [fin EXCEPT !.pc = "charge_mark",
                                    !.res_id = charges'[idem].id,
                                    !.res_amt = charges'[idem].amount]
           \/ /\ charges' = charges
              /\ settled' = settled
              /\ log' = Append(log, <<"charge", fin.row.square_card_id, fin.final,
                                   FALSE, idem>>)
              /\ fin' = AfterException(fin, "charge", ChargeError)
    /\ UNCHANGED <<storeVars, holds, queue, dbErrors, exit>>

\* await db.mark_voided(...) / await db.mark_captured(...) inside the try of
\* its loop: the handler returns, or the store call raises into the except.
FinMark ==
    /\ fin.pc \in {"void_mark", "charge_mark", "capture_mark"}
    /\ LET key  == fin.row.idempotency_key
           loop == CASE fin.pc = "void_mark"    -> "void"
                     [] fin.pc = "charge_mark"  -> "charge"
                     [] fin.pc = "capture_mark" -> "capture"
           call == IF fin.pc = "void_mark" THEN "mark_voided" ELSE "mark_captured"
       IN  \/ /\ sessions' =
                   IF fin.pc = "void_mark"
                   THEN MarkVoided(sessions, key, fin.res_id, now)
                   ELSE MarkCaptured(sessions, key, fin.res_id, fin.res_amt, now)
              /\ log' = Append(log, <<"db", call, 0, TRUE>>)
              /\ Finish(fin, "return")
              /\ UNCHANGED dbErrors
           \/ /\ sessions' = sessions
              /\ log' = Append(log, <<"db", call, 0, FALSE>>)
              /\ dbErrors' = dbErrors + 1
              /\ fin' = AfterException(fin, loop, DbError)
              /\ exit' = exit
    /\ UNCHANGED <<now, inflight, batch, batchPre, submitted,
                   holds, charges, queue, settled>>

\* await asyncio.sleep(_RETRY_DELAY_S), then the next attempt of the loop.
FinSleep ==
    /\ fin.pc = "sleep"
    /\ fin' = [fin EXCEPT !.pc = fin.resume, !.attempt = @ + 1]
    /\ log' = Append(log, <<"sleep", NULL, 0, FALSE>>)
    /\ UNCHANGED <<storeVars, holds, charges, queue, dbErrors, exit, settled>>

\* await db.mark_failed(idempotency_key, error); return -- or the store call
\* raises out of _handle_finalize.
FinMarkFailed ==
    /\ fin.pc = "fail"
    /\ \/ /\ sessions' = MarkFailed(sessions, fin.row.idempotency_key, fin.error, now)
          /\ log' = Append(log, <<"db", "mark_failed", 0, TRUE>>)
          /\ Finish(fin, "return")
          /\ UNCHANGED dbErrors
       \/ /\ sessions' = sessions
          /\ log' = Append(log, <<"db", "mark_failed", 0, FALSE>>)
          /\ dbErrors' = dbErrors + 1
          /\ Finish(fin, "raise")
    /\ UNCHANGED <<now, inflight, batch, batchPre, submitted,
                   holds, charges, queue, settled>>

\* finally: queue.task_done(), and the consumer is back at queue.get().
\* (FinTaskDoneUnlessRaised is a faulty variant: an exception of the handler
\* leaves the while loop and ends the task.)
FinTaskDoneUnlessRaised ==
    /\ fin.pc = "done"
    /\ fin' = IF exit = "raise" THEN [FinIdle EXCEPT !.pc = "stopped"] ELSE FinIdle
    /\ log' = <<>>
    /\ dbErrors' = 0
    /\ exit' = "none"
    /\ UNCHANGED <<storeVars, holds, charges, queue, settled>>
FinTaskDone ==
    /\ fin.pc = "done"
    /\ fin' = FinIdle
    /\ log' = <<>>
    /\ dbErrors' = 0
    /\ exit' = "none"
    /\ UNCHANGED <<storeVars, holds, charges, queue, settled>>

(***************************************************************************)
(* The sessions the reconciler can meet: rows the store calls of the other *)
(* flows leave behind, each with the status its pre-authorisation has at   *)
(* the gateway.                                                            *)
(* The hold is of MaxAmount - 1 cents, so that the final amounts of the    *)
(* payloads lie below it, at it and above it.                              *)
(***************************************************************************)
B1Key == IdempotencyKey(ChargerId, "b1")

FinScenarios ==
    UNION {
      LET awaiting == UpsertTable(<<>>, SessionDict("b1", "t1", "AWAITING_PAYMENT_INFO", a), 0)
          request  == UpsertTable(awaiting, SessionDict("b1", "t1", "AUTH_REQUESTED", a), 0)
          declined == MarkFailed(request, B1Key, <<"declined">>, 0)
      IN  { <<awaiting, "NONE">>, <<request, "NONE">>, <<declined, "NONE">> }
          \cup
          UNION {
            LET auth     == MarkAuthorized(request, B1Key, "pay1", a, meta, 0)
                captured == MarkCaptured(auth, B1Key, "pay1", a, 0)
                voided   == MarkVoided(auth, B1Key, "pay1", 0)
            IN  { <<auth, "APPROVED">>,
                  <<captured, "COMPLETED">>,
                  <<voided, "CANCELED">>,
                  <<MarkCanceled(auth, B1Key, "pay1", 0), "CANCELED">>,
                  <<MarkRefunded(captured, B1Key, "ref1", a, 0), "COMPLETED">>,
                  <<MarkFailed(auth, B1Key, <<"declined">>, 0), "APPROVED">>,
                  <<UpsertTable(voided, SessionDict("b1", "t2", "AWAITING_PAYMENT_INFO", a), 0),
                    "CANCELED">> }
            : meta \in {CardMeta, WalletMeta} }
      : a \in {MaxAmount - 1} }

FinInit ==
    /\ now = 0
    /\ StoreQuiet
    /\ \E sc \in FinScenarios :
          /\ sessions = sc[1]
          /\ holds = IF sc[2] = "NONE" THEN <<>> ELSE [p \in {"pay1"} |-> sc[2]]
    /\ charges = <<>>
    /\ queue = <<>>
    /\ fin = FinIdle
    /\ log = <<>>
    /\ dbErrors = 0
    /\ exit = "none"
    /\ settled = 0
    /\ PortalQuiet
    /\ AdminQuiet

FinStep ==
    \/ FinGet
    \/ FinLookup
    \/ FinCancelCall
    \/ FinCaptureCall
    \/ FinChargeCall
    \/ FinMark
    \/ FinSleep
    \/ FinMarkFailed
    \/ FinTaskDone

\* The clock stands still in this specification: the reconciler reads no
\* timestamp, and each booking has one row.
FinNext ==
    \/ \E p \in Payloads : Deliver(p) /\ UNCHANGED otherVars
    \/ FinGet /\ UNCHANGED otherVars
    \/ FinLookup /\ UNCHANGED otherVars
    \/ FinCancelCall /\ UNCHANGED otherVars
    \/ FinCaptureCall /\ UNCHANGED otherVars
    \/ FinChargeCall /\ UNCHANGED otherVars
    \/ FinMark /\ UNCHANGED otherVars
    \/ FinSleep /\ UNCHANGED otherVars
    \/ FinMarkFailed /\ UNCHANGED otherVars
    \/ FinTaskDone /\ UNCHANGED otherVars

SpecFinalize == FinInit /\ [][FinNext]_vars

(***************************************************************************)
(* Claims about the store.                                                 *)
(***************************************************************************)
Protected == {"AUTHORIZED", "CAPTURED"}

\* The store call that ran last and the state its row had before it.
LastCall  == batch[Len(batch)][1]
LastPre   == batch[Len(batch)][2]

\* An upsert that proposes a state outside {AUTHORIZED, CAPTURED} has just run
\* on a row that was in AUTHORIZED or CAPTURED.
DowngradeAttempt ==
    /\ batch # <<>>
    /\ LastCall[1] = "upsert"
    /\ LastPre \in Protected
    /\ LastCall[3].state \notin Protected

\* C1 (no-downgrade): after any sequence of store calls, an upsert_session
\* whose proposed state is not AUTHORIZED or CAPTURED, run on a row that is in
\* AUTHORIZED or CAPTURED, leaves the row's state as it was.
C1_NoDowngrade ==
    DowngradeAttempt => sessions[LastCall[2]].state = LastPre

C1_Witness ==
    /\ DowngradeAttempt
    /\ LastPre = "CAPTURED"
    /\ LastCall[3].state = "AUTH_REQUESTED"

\* Exactly two store calls overlapped and both have run: an upsert proposing
\* AWAITING_PAYMENT_INFO and the mark call `mark`, on a key that had a row
\* before either began.
Raced(k, mark) ==
    /\ inflight = {}
    /\ Len(batch) = 2
    /\ k \in DOMAIN batchPre
    /\ \E i, j \in 1..2 :
          /\ i # j
          /\ batch[i][1][1] = "upsert"
          /\ batch[i][1][2] = k
          /\ batch[i][1][3].state = "AWAITING_PAYMENT_INFO"
          /\ batch[j][1][1] = mark
          /\ batch[j][1][2] = k

\* C2 (atomic no-downgrade): when an upsert proposing AWAITING_PAYMENT_INFO and
\* a concurrent mark_authorized (mark_captured) on the same existing row have
\* both run, in either order, the row is in AUTHORIZED (CAPTURED).
C2_UpsertRaceKeepsMark ==
    \A k \in Keys :
        /\ Raced(k, "mark_authorized") => sessions[k].state = "AUTHORIZED"
        /\ Raced(k, "mark_captured") => sessions[k].state = "CAPTURED"

\* The mark call ran first and the upsert after it.
C2_Witness ==
    \E k \in Keys :
        /\ Raced(k, "mark_captured")
        /\ batch[1][1][1] = "mark_captured"
        /\ batchPre[k].state = "AWAITING_PAYMENT_INFO"

(***************************************************************************)
(* Claims about the finalize reconciler.                                   *)
(***************************************************************************)
Done      == fin.pc = "done"
Found     == fin.row.state # "ABSENT"
\* The handler read a row that is not settled yet and goes on with it.
Proceeds  == Found /\ fin.row.state \notin {"CAPTURED", "VOIDED"}
HasPaymentRef == ~Falsy(fin.row.square_payment_id)
HasCardRefs ==
    ~Falsy(fin.row.square_card_id) /\ ~Falsy(fin.row.square_customer_id)
CurRow    == sessions[fin.row.idempotency_key]
\* _handle_finalize returned from inside the try of a loop.
Succeeded == Done /\ exit = "return" /\ fin.error = NoError

IsCall(e)  == e[1] \in {"cancel", "capture", "charge"}
Calls      == {i \in DOMAIN log : IsCall(log[i])}
CallsOf(op) == {i \in DOMAIN log : log[i][1] = op}
OkCallsOf(op) == {i \in CallsOf(op) : log[i][4]}
Sleeps     == {i \in DOMAIN log : log[i][1] = "sleep"}

\* C3 (idempotent settlement): when _handle_finalize has handled a payload for
\* a session that was already CAPTURED or VOIDED, whatever the final amount and
\* however often it is redelivered, it made no gateway call and no store
\* write, and the row is as it was read.
C3_SettledIsSkipped ==
    (Done /\ Found /\ fin.row.state \in {"CAPTURED", "VOIDED"}) =>
        /\ log = <<>>
        /\ CurRow = fin.row
        /\ exit = "return"

\* A redelivery after the reconciler itself captured the session.
C3_Witness ==
    /\ Done
    /\ fin.row.state = "CAPTURED"
    /\ settled = 1
    /\ fin.final = MaxAmount

\* C4 (never captures twice): over any sequence of finalize payloads and any
\* pattern of gateway and store failures, at most one capture or direct
\* charge of the reconciler takes money for the session.
C4_AtMostOneCapture == settled <= 1

\* C5 (overcharge branch): with final > authorized and a payment, card and
\* customer reference stored, the handler never calls capture, calls cancel on
\* the pre-authorisation before any direct charge, charges exactly the final
\* amount, and when it returns from the charge loop's try the row is CAPTURED
\* with the final amount and the new charge's id, which is not the payment
\* reference; a charge that returns while no store call raises ends that way.
Overcharge ==
    /\ Proceeds /\ HasPaymentRef /\ HasCardRefs
    /\ fin.final > fin.row.authorized_amount_cents

C5_OverchargeBranch ==
    Overcharge =>
        /\ CallsOf("capture") = {}
        /\ \A i \in CallsOf("charge") :
              /\ log[i][3] = fin.final
              /\ \E j \in CallsOf("cancel") :
                    j < i /\ log[j][2] = fin.row.square_payment_id
        /\ \A i \in CallsOf("charge"), j \in CallsOf("cancel") : j < i
        /\ Succeeded =>
              /\ CurRow.state = "CAPTURED"
              /\ CurRow.captured_amount_cents = fin.final
              /\ CurRow.square_capture_payment_id =
                     charges[ChargeIdem(fin.row.idempotency_key)].id
              /\ CurRow.square_capture_payment_id # fin.row.square_payment_id
        /\ (Done /\ dbErrors = 0 /\ OkCallsOf("charge") # {}) => Succeeded

C5_Witness ==
    /\ Overcharge /\ Succeeded
    /\ OkCallsOf("cancel") # {}
    /\ CurRow.state = "CAPTURED"
    /\ CurRow.captured_amount_cents = MaxAmount

\* C6 (zero final amount): with final = 0 and a payment reference stored, every
\* gateway call of the handler is a cancel of that payment, and when it
\* returns from the void loop's try the row is VOIDED with captured amount 0;
\* a cancel that returns while no store call raises ends that way.
ZeroAmount == Proceeds /\ HasPaymentRef /\ fin.final = 0

C6_ZeroAmountVoids ==
    ZeroAmount =>
        /\ \A i \in Calls :
              log[i][1] = "cancel" /\ log[i][2] = fin.row.square_payment_id
        /\ Succeeded =>
              /\ CurRow.state = "VOIDED"
              /\ CurRow.captured_amount_cents = 0
        /\ (Done /\ dbErrors = 0 /\ OkCallsOf("cancel") # {}) => Succeeded

C6_Witness ==
    /\ ZeroAmount /\ Succeeded
    /\ fin.row.state = "AUTHORIZED"
    /\ CurRow.state = "VOIDED"

\* C7 (capture within the hold): with 0 < final <= authorized and a payment
\* reference stored, every gateway call of the handler is a capture of that
\* payment at exactly the final amount, and when it returns from the capture
\* loop's try the row is CAPTURED with the final amount; a capture that
\* returns while no store call raises ends that way.
WithinHold ==
    /\ Proceeds /\ HasPaymentRef
    /\ 0 < fin.final /\ fin.final <= fin.row.authorized_amount_cents

C7_CaptureWithinHold ==
    WithinHold =>
        /\ \A i \in Calls :
              /\ log[i][1] = "capture"
              /\ log[i][2] = fin.row.square_payment_id
              /\ log[i][3] = fin.final
        /\ Succeeded =>
              /\ CurRow.state = "CAPTURED"
              /\ CurRow.captured_amount_cents = fin.final
        /\ (Done /\ dbErrors = 0 /\ OkCallsOf("capture") # {}) => Succeeded

C7_Witness ==
    /\ WithinHold /\ Succeeded
    /\ fin.row.state = "AUTHORIZED"
    /\ fin.final = fin.row.authorized_amount_cents
    /\ CurRow.state = "CAPTURED"

\* The gateway call of each loop that ends in mark_failed, and its text.
LoopCall(text) ==
    CASE text = "void failed after"          -> "cancel"
      [] text = "direct charge failed after" -> "charge"
      [] text = "capture failed after"       -> "capture"
      [] OTHER                               -> "none"

\* C8 (retry bound): no loop makes more than _MAX_RETRIES attempts; a loop
\* whose attempts all fail makes exactly _MAX_RETRIES, and in the void, capture
\* and direct-charge loop the handler then calls mark_failed with a text that
\* names that count, which leaves the row FAILED; there is one sleep between
\* consecutive attempts and none after the last; an attempt that succeeds is
\* the last of its loop.
C8_RetryBound ==
    /\ \A op \in {"cancel", "capture", "charge"} :
          /\ Cardinality(CallsOf(op)) <= _MAX_RETRIES
          /\ (Done /\ CallsOf(op) # {} /\ OkCallsOf(op) = {}) =>
                Cardinality(CallsOf(op)) = _MAX_RETRIES
    /\ LoopCall(IF fin.error = NoError THEN "" ELSE fin.error[1]) # "none" =>
          /\ fin.error[2] = _MAX_RETRIES
          /\ Cardinality(CallsOf(LoopCall(fin.error[1]))) = fin.error[2]
          /\ fin.error[3] = fin.last_error
          /\ (Done /\ exit = "return") =>
                CurRow.state = "FAILED" /\ CurRow.last_error = fin.error
    /\ \A op \in {"capture", "charge"} :
          (Done /\ exit = "return" /\ CallsOf(op) # {} /\ OkCallsOf(op) = {}) =>
              CurRow.state = "FAILED" /\ LoopCall(CurRow.last_error[1]) = op
    /\ (Done /\ exit = "return" /\ fin.final = 0 /\ CallsOf("cancel") # {}
          /\ OkCallsOf("cancel") = {}) =>
              CurRow.state = "FAILED" /\ LoopCall(CurRow.last_error[1]) = "cancel"
    /\ \A i \in Sleeps :
          /\ i > 1
          /\ ~log[i - 1][4]
          /\ log[i - 1][1] # "sleep"
          /\ i < Len(log) => IsCall(log[i + 1])
    /\ \A i, j \in Calls :
          (i < j /\ log[i][1] = log[j][1]) => \E m \in Sleeps : i < m /\ m < j
    /\ Done => Cardinality(Sleeps) =
                 Cardinality(Calls) - Cardinality({log[i][1] : i \in Calls})
    /\ Succeeded /\ log # <<>> =>
          /\ Len(log) >= 2
          /\ IsCall(log[Len(log) - 1]) /\ log[Len(log) - 1][4]
    /\ dbErrors = 0 =>
          \A i, j \in Calls : (i < j /\ log[i][4]) => log[j][1] # log[i][1]

\* Three capture attempts failed and the row is FAILED.
C8_Witness ==
    /\ Done /\ exit = "return"
    /\ Cardinality(CallsOf("capture")) = _MAX_RETRIES
    /\ OkCallsOf("capture") = {}
    /\ Cardinality(Sleeps) = _MAX_RETRIES - 1
    /\ CurRow.state = "FAILED"
    /\ CurRow.last_error = <<"capture failed after", _MAX_RETRIES, CaptureError>>

\* The most steps one payload takes after its lookup: the void and the charge
\* loop of the overcharge branch, every charge followed by a store call that
\* raises, then mark_failed.
MaxHandlerSteps == (2 * _MAX_RETRIES - 1) + (3 * _MAX_RETRIES - 1) + 1

C10_MissingRefsFatal ==
    /\ (Proceeds /\ ~HasPaymentRef) =>
          /\ Calls = {} /\ Sleeps = {}
          /\ fin.pc \in {"fail", "done"}
          /\ fin.error[1] = "missing square_payment_id for capture"
          /\ Done => log \in { <<e>> : e \in { <<"db", "mark_failed", 0, ok>> :
                                                 ok \in BOOLEAN } }
          /\ (Done /\ exit = "return") =>
                CurRow.state = "FAILED" /\ CurRow.last_error = fin.error
    /\ (Proceeds /\ HasPaymentRef /\ ~HasCardRefs
          /\ fin.final > fin.row.authorized_amount_cents) =>
          /\ CallsOf("charge") = {}
          /\ fin.pc \in {"ovoid", "sleep", "fail", "done"}
          /\ Done =>
                /\ fin.error[1] = "overcharge: missing card_id or customer_id"
                /\ Cardinality({i \in DOMAIN log : log[i][1] = "db"}) = 1
          /\ (Done /\ exit = "return") =>
                CurRow.state = "FAILED" /\ CurRow.last_error = fin.error

\* A wallet-authorised session billed above its hold: the hold is cancelled,
\* nothing is charged, the row is FAILED.
C10_Witness ==
    /\ Done /\ exit = "return" /\ Proceeds /\ HasPaymentRef /\ ~HasCardRefs
    /\ fin.final > fin.row.authorized_amount_cents
    /\ OkCallsOf("cancel") # {}
    /\ CurRow.state = "FAILED"

\* The other case: no payment reference at all.
C10_WitnessNoPayment ==
    Done /\ exit = "return" /\ Proceeds /\ ~HasPaymentRef /\ CurRow.state = "FAILED"

(***************************************************************************)
(* endpoints/start.py and endpoints/submit_payment.py: the request /       *)
(* response cycle over the message bus and the two handlers that use it,   *)
(* one action per await.  A response carries, as history, the round trip   *)
(* whose request it answers; the code cannot see it.                       *)
(***************************************************************************)
DefaultChargeCents == 100

TopicOf(kind) == IF kind = "start" THEN "booking" ELSE "authorize"

\* What the controller may send on a response topic.
NoBody == [json_ok |-> FALSE, booking_id |-> NULL, dollars |-> NullInt,
           success |-> FALSE]
Bodies(topic) ==
    IF topic = "booking"
    THEN { [NoBody EXCEPT !.json_ok = TRUE, !.booking_id = "b1", !.dollars = 1],
           [NoBody EXCEPT !.json_ok = TRUE],
           NoBody }
    ELSE { [NoBody EXCEPT !.json_ok = TRUE, !.success = TRUE],
           [NoBody EXCEPT !.json_ok = TRUE],
           NoBody }

\* booking_id = str(parsed.get("booking_id") or "unknown")
ParsedBookingId(m) ==
    IF m.json_ok /\ ~Falsy(m.booking_id) THEN m.booking_id ELSE "unknown"

\* amount_cents = round(float(_raw_dollars) * 100), else the configured default
DollarsToCents(d) == d * 100
AmountCents(m) ==
    IF m.json_ok /\ m.dollars # NullInt THEN DollarsToCents(m.dollars)
    ELSE DefaultChargeCents

\* auth_parsed.get("success") is True
AuthSuccess(m) == m.json_ok /\ m.success

\* str(uuid.uuid4()): a token never produced before.
TokenNames == <<"u1", "u2", "u3", "u4", "u5">>

\* asyncio.Lock: locked(), the fast path of acquire(), release().
Locked(l) == l.holder # NoRid
CanAcquire(l) == l.holder = NoRid /\ l.waiters = <<>>
ReleaseLockNever(l) == l
ReleaseLock(l) == [l EXCEPT !.holder = NoRid]

\* while not q.empty(): q.get_nowait()
DrainNothing(q) == q
Drain(q) == <<>>

\* if existing and existing["state"] in ("AUTHORIZED", "CAPTURED")
ShortCircuitOnlyAuthorized(st) == st = "AUTHORIZED"
ShortCircuit(st) == st \in {"AUTHORIZED", "CAPTURED"}

\* if db_row is not None and db_row["state"] not in ("AUTHORIZED", "CAPTURED")
RecoverOkAnyState(st) == st # "ABSENT"
RecoverOk(st) == st # "ABSENT" /\ st \notin {"AUTHORIZED", "CAPTURED"}

\* except asyncio.TimeoutError: return the 504 response (no store call).
AfterTimeoutMarkFailed(tbl, k, t) == MarkFailed(tbl, k, <<"timeout">>, t)
AfterTimeout(tbl, k, t) == tbl

CardError == <<"card error">>
AuthError == <<"authorization error">>

\* create_payment_authorization uses the booking id as idempotency key: the
\* gateway creates one payment per booking and returns it again afterwards.
PaymentIdFor(booking) == IF booking = "b1" THEN "pay1" ELSE "pay0"
AuthorizeEffect(h, pid) == IF pid \in DOMAIN h THEN h ELSE (pid :> "APPROVED") @@ h

ReqDone(req, res) == [req EXCEPT !.pc = "done", !.result = res]

\* Steps (2) and (3) of a cycle, run by the new holder r without suspending:
\* drain the response queue, publish the request; l is the lock it acquired.
CycleStart(r, req, l, published) ==
    LET topic == TopicOf(req.kind)
        q     == topicQ[topic]
        base  == [req EXCEPT !.stale = {q[i].re : i \in DOMAIN q},
                             !.steps = @ \o <<"acquire", "drain">>]
    IN  /\ topicQ' = [topicQ EXCEPT ![topic] = Drain(q)]
        /\ IF published
           THEN /\ bus' = bus \cup {<<topic, r>>}
                /\ lock' = l
                /\ reqs' = [reqs EXCEPT ![r] =
                       [base EXCEPT !.pc = "wait", !.steps = @ \o <<"publish">>]]
           ELSE /\ bus' = bus
                /\ lock' = ReleaseLock(l)
                /\ reqs' = [reqs EXCEPT ![r] =
                       [ReqDone(base, "publish_failed") EXCEPT
                           !.steps = @ \o <<"release">>]]

\* async with state._session_lock: the fast path, or the caller queues.
Enter(r, req, published) ==
    IF CanAcquire(lock)
    THEN CycleStart(r, req, [lock EXCEPT !.holder = r], published)
    ELSE /\ lock' = [lock EXCEPT !.waiters = Append(@, r)]
         /\ reqs' = [reqs EXCEPT ![r] =
                [req EXCEPT !.pc = "lockwait", !.steps = <<"queued">>]]
         /\ UNCHANGED <<topicQ, bus>>

NextRid(r) ==
    reqs[r].kind = "none" /\ (IF r = 1 THEN TRUE ELSE reqs[r - 1].kind # "none")

\* GET /start up to its first await.
StartEnter(r, connected, published) ==
    /\ NextRid(r)
    /\ LET req == [ReqNone EXCEPT !.kind = "start"]
       IN  IF ~connected
           THEN /\ reqs' = [reqs EXCEPT ![r] = ReqDone(req, "unavailable")]
                /\ UNCHANGED <<lock, topicQ, bus>>
           ELSE IF Locked(lock)
           THEN /\ reqs' = [reqs EXCEPT ![r] = ReqDone(req, "busy")]
                /\ UNCHANGED <<lock, topicQ, bus>>
           ELSE Enter(r, req, published)
    /\ UNCHANGED <<storeVars, finVars, adminVars, pending, minted>>

\* A queued caller is woken after a release and takes the lock.
LockWake(r, published) ==
    /\ reqs[r].pc = "lockwait"
    /\ lock.holder = NoRid
    /\ lock.waiters # <<>> /\ Head(lock.waiters) = r
    /\ CycleStart(r, reqs[r], [holder |-> r, waiters |-> Tail(lock.waiters)],
                  published)
    /\ UNCHANGED <<storeVars, finVars, adminVars, pending, minted>>

\* The controller answers a published request; on_message puts the answer on
\* the topic's queue.
ControllerRespond(topic, r, body) ==
    /\ <<topic, r>> \in bus
    /\ bus' = bus \ {<<topic, r>>}
    /\ topicQ' = [topicQ EXCEPT ![topic] = Append(@, [re |-> r] @@ body)]
    /\ UNCHANGED <<storeVars, finVars, adminVars, lock, pending, reqs, minted>>

\* asyncio.wait_for(q.get(), timeout) returns the head of the queue.
Receive(r) ==
    LET req   == reqs[r]
        topic == TopicOf(req.kind)
        m     == Head(topicQ[topic])
        base  == [req EXCEPT !.got = m.re, !.steps = @ \o <<"get", "release">>]
    IN  /\ req.pc = "wait"
        /\ topicQ[topic] # <<>>
        /\ topicQ' = [topicQ EXCEPT ![topic] = Tail(@)]
        /\ lock' = ReleaseLock(lock)
        /\ reqs' = [reqs EXCEPT ![r] =
              IF req.kind = "start"
              THEN [base EXCEPT !.pc = "get",
                                !.booking_id = ParsedBookingId(m),
                                !.amount = AmountCents(m)]
              ELSE ReqDone(base, IF AuthSuccess(m) THEN "success" ELSE "refused")]
        /\ UNCHANGED <<storeVars, finVars, adminVars, bus, pending, minted>>

\* asyncio.wait_for raises TimeoutError.
Timeout(r) ==
    LET req == reqs[r]
    IN  /\ req.pc = "wait"
        /\ topicQ[TopicOf(req.kind)] = <<>>
        /\ lock' = ReleaseLock(lock)
        /\ reqs' = [reqs EXCEPT ![r] =
              [ReqDone(req, "timeout") EXCEPT !.steps = @ \o <<"release">>]]
        /\ sessions' = IF req.kind = "start" THEN sessions
                       ELSE AfterTimeout(sessions,
                                IdempotencyKey(ChargerId, req.booking_id), now)
        /\ UNCHANGED <<now, inflight, batch, batchPre, submitted, finVars, adminVars,
                       topicQ, bus, pending, minted>>

KeyOf(req) == IdempotencyKey(ChargerId, req.booking_id)

\* /start: existing = await db.get_session(idempotency_key); the short
\* circuit, or a new token in state._pending_sessions.
StartGet(r) ==
    LET req  == reqs[r]
        seen == RowState(sessions, KeyOf(req))
    IN  /\ req.kind = "start" /\ req.pc = "get"
        /\ IF ShortCircuit(seen)
           THEN /\ reqs' = [reqs EXCEPT ![r] =
                      [ReqDone(req, "existing") EXCEPT
                          !.seen = seen,
                          !.payment_id = sessions[KeyOf(req)].square_payment_id]]
                /\ UNCHANGED <<pending, minted>>
           ELSE /\ minted < Len(TokenNames)
                /\ minted' = minted + 1
                /\ pending' = (TokenNames[minted + 1] :>
                                  [booking_id |-> req.booking_id,
                                   amount_cents |-> req.amount]) @@ pending
                /\ reqs' = [reqs EXCEPT ![r] =
                      [req EXCEPT !.pc = "upsert", !.seen = seen,
                                  !.uid = TokenNames[minted + 1]]]
        /\ UNCHANGED <<storeVars, finVars, adminVars, lock, topicQ, bus>>

\* /start: await db.upsert_session({... AWAITING_PAYMENT_INFO ...}); the form.
StartUpsert(r) ==
    LET req == reqs[r]
    IN  /\ req.kind = "start" /\ req.pc = "upsert"
        /\ sessions' = UpsertTable(sessions,
              SessionDict(req.booking_id, req.uid, "AWAITING_PAYMENT_INFO",
                          req.amount), now)
        /\ reqs' = [reqs EXCEPT ![r] =
              [ReqDone(req, "form") EXCEPT !.writes = @ + 1]]
        /\ UNCHANGED <<now, inflight, batch, batchPre, submitted, finVars, adminVars,
                       lock, topicQ, bus, pending, minted>>

\* POST /submit_payment: session = state._pending_sessions.pop(uid, None).
SubmitEnter(r, uid, wallet) ==
    LET req == [ReqNone EXCEPT !.kind = "submit", !.uid = uid, !.wallet = wallet]
    IN  /\ NextRid(r)
        /\ IF uid \in DOMAIN pending
           THEN /\ pending' = [u \in DOMAIN pending \ {uid} |-> pending[u]]
                /\ reqs' = [reqs EXCEPT ![r] =
                      [req EXCEPT !.pc = "get", !.via = "memory",
                                  !.booking_id = pending[uid].booking_id,
                                  !.amount = pending[uid].amount_cents]]
           ELSE /\ pending' = pending
                /\ reqs' = [reqs EXCEPT ![r] = [req EXCEPT !.pc = "uidget"]]
        /\ UNCHANGED <<storeVars, finVars, adminVars, lock, topicQ, bus, minted>>

\* SELECT * FROM sessions WHERE session_id = ?
SessionsByUid(tbl, uid) == {k \in DOMAIN tbl : tbl[k].session_id = uid}

\* /submit_payment: db_row = await db.get_session_by_uid(uid).
SubmitUidGet(r) ==
    LET req  == reqs[r]
        hits == SessionsByUid(sessions, req.uid)
    IN  /\ req.kind = "submit" /\ req.pc = "uidget"
        /\ \/ /\ hits = {}
              /\ reqs' = [reqs EXCEPT ![r] =
                    IF RecoverOk("ABSENT")
                    THEN [req EXCEPT !.pc = "get", !.via = "db", !.rec = "ABSENT"]
                    ELSE [ReqDone(req, "rejected") EXCEPT
                             !.via = "rejected", !.rec = "ABSENT"]]
           \/ \E k \in hits :
                 reqs' = [reqs EXCEPT ![r] =
                    IF RecoverOk(sessions[k].state)
                    THEN [req EXCEPT !.pc = "get", !.via = "db",
                              !.rec = sessions[k].state,
                              !.booking_id = sessions[k].booking_id,
                              !.amount = sessions[k].authorized_amount_cents]
                    ELSE [ReqDone(req, "rejected") EXCEPT
                             !.via = "rejected", !.rec = sessions[k].state]]
        /\ UNCHANGED <<storeVars, finVars, adminVars, lock, topicQ, bus, pending, minted>>

\* /submit_payment: existing = await db.get_session(idempotency_key).
SubmitGet(r) ==
    LET req  == reqs[r]
        seen == RowState(sessions, KeyOf(req))
    IN  /\ req.kind = "submit" /\ req.pc = "get"
        /\ reqs' = [reqs EXCEPT ![r] =
              IF ShortCircuit(seen)
              THEN [ReqDone(req, "idempotent") EXCEPT
                       !.seen = seen,
                       !.payment_id = sessions[KeyOf(req)].square_payment_id,
                       !.amount = sessions[KeyOf(req)].authorized_amount_cents]
              ELSE [req EXCEPT !.pc = "upsert", !.seen = seen]]
        /\ UNCHANGED <<storeVars, finVars, adminVars, lock, topicQ, bus, pending, minted>>

\* /submit_payment: await db.upsert_session({... AUTH_REQUESTED ...}).
SubmitUpsert(r) ==
    LET req == reqs[r]
    IN  /\ req.kind = "submit" /\ req.pc = "upsert"
        /\ sessions' = UpsertTable(sessions,
              SessionDict(req.booking_id, req.uid, "AUTH_REQUESTED", req.amount),
              now)
        /\ reqs' = [reqs EXCEPT ![r] =
              [req EXCEPT !.pc = IF req.wallet THEN "auth" ELSE "card",
                          !.writes = @ + 1]]
        /\ UNCHANGED <<now, inflight, batch, batchPre, submitted, finVars, adminVars,
                       lock, topicQ, bus, pending, minted>>

\* /submit_payment: await square.create_card(...).
SubmitCard(r, ok) ==
    LET req == reqs[r]
    IN  /\ req.kind = "submit" /\ req.pc = "card"
        /\ reqs' = [reqs EXCEPT ![r] =
              IF ok THEN [req EXCEPT !.pc = "auth", !.meta = CardMeta,
                                     !.calls = @ + 1]
              ELSE [req EXCEPT !.pc = "failed", !.err = CardError,
                               !.calls = @ + 1]]
        /\ UNCHANGED <<storeVars, finVars, adminVars, lock, topicQ, bus, pending, minted>>

\* /submit_payment: await square.create_payment_authorization(...).
SubmitAuth(r, ok) ==
    LET req == reqs[r]
        pid == PaymentIdFor(req.booking_id)
    IN  /\ req.kind = "submit" /\ req.pc = "auth"
        /\ holds' = IF ok THEN AuthorizeEffect(holds, pid) ELSE holds
        /\ reqs' = [reqs EXCEPT ![r] =
              IF ok THEN [req EXCEPT !.pc = "mark", !.payment_id = pid,
                                     !.meta = IF req.wallet THEN WalletMeta ELSE @,
                                     !.calls = @ + 1]
              ELSE [req EXCEPT !.pc = "failed", !.err = AuthError,
                               !.calls = @ + 1]]
        /\ UNCHANGED <<storeVars, charges, queue, fin, log, dbErrors, exit,
                       settled, adminVars, lock, topicQ, bus, pending, minted>>

\* /submit_payment: await db.mark_failed(idempotency_key, err_msg); card_error.
SubmitMarkFailed(r) ==
    LET req == reqs[r]
    IN  /\ req.kind = "submit" /\ req.pc = "failed"
        /\ sessions' = MarkFailed(sessions, KeyOf(req), req.err, now)
        /\ reqs' = [reqs EXCEPT ![r] =
              [ReqDone(req, "card_error") EXCEPT !.writes = @ + 1]]
        /\ UNCHANGED <<now, inflight, batch, batchPre, submitted, finVars, adminVars,
                       lock, topicQ, bus, pending, minted>>

\* /submit_payment: await db.mark_authorized(...), then the authorize round
\* trip up to its await.
SubmitMark(r, connected, published) ==
    LET req == [reqs[r] EXCEPT !.writes = @ + 1]
    IN  /\ req.kind = "submit" /\ req.pc = "mark"
        /\ sessions' = MarkAuthorized(sessions, KeyOf(req), req.payment_id,
                                      req.amount, req.meta, now)
        /\ IF ~connected
           THEN /\ reqs' = [reqs EXCEPT ![r] = ReqDone(req, "unavailable")]
                /\ UNCHANGED <<lock, topicQ, bus>>
           ELSE Enter(r, req, published)
        /\ UNCHANGED <<now, inflight, batch, batchPre, submitted, finVars, adminVars,
                       pending, minted>>

\* The store, the gateway's hold and the pending map the handlers may start
\* from: a first start; a restart with a session waiting for its card; a
\* restart after the reconciler captured or voided, or an admin voided or
\* refunded; /start served twice for a booking.
PortalScenarios ==
    LET cents    == DollarsToCents(1)
        awaiting == UpsertTable(<<>>, SessionDict("b1", "t1", "AWAITING_PAYMENT_INFO",
                                                  cents), 0)
        again    == UpsertTable(awaiting, SessionDict("b1", "t2", "AWAITING_PAYMENT_INFO",
                                                      cents), 0)
        auth     == MarkAuthorized(awaiting, B1Key, "pay1", cents, CardMeta, 0)
        captured == MarkCaptured(auth, B1Key, "pay1", cents, 0)
        tab      == [booking_id |-> "b1", amount_cents |-> cents]
        voided   == MarkVoided(auth, B1Key, "pay1", 0)
        canceled == MarkCanceled(auth, B1Key, "pay1", 0)
        refunded == MarkRefunded(captured, B1Key, "ref1", cents, 0)
    IN  { [tbl |-> <<>>,     hold |-> "NONE",      map |-> <<>>],
          [tbl |-> awaiting, hold |-> "NONE",      map |-> <<>>],
          [tbl |-> captured, hold |-> "COMPLETED", map |-> <<>>],
          [tbl |-> voided,   hold |-> "CANCELED",  map |-> <<>>],
          [tbl |-> canceled, hold |-> "CANCELED",  map |-> <<>>],
          [tbl |-> refunded, hold |-> "COMPLETED", map |-> <<>>],
          [tbl |-> again,    hold |-> "NONE",
           map |-> [u \in {"t1", "t2"} |-> tab]] }

PortalInit ==
    /\ now = 0
    /\ StoreQuiet
    /\ \E sc \in PortalScenarios :
          /\ sessions = sc.tbl
          /\ holds = IF sc.hold = "NONE" THEN <<>> ELSE [p \in {"pay1"} |-> sc.hold]
          /\ pending = sc.map
    /\ charges = <<>>
    /\ queue = <<>>
    /\ fin = FinIdle
    /\ log = <<>>
    /\ dbErrors = 0
    /\ exit = "none"
    /\ settled = 0
    /\ lock = LockFree
    /\ topicQ = [t \in Topics |-> <<>>]
    /\ bus = {}
    /\ reqs = [r \in Rids |-> ReqNone]
    /\ minted = 0
    /\ AdminQuiet

\* The tokens a browser may send: those of the scenarios, those minted, and
\* one never issued.
SubmitUids == {"t1", "t2", "x0"} \cup {TokenNames[i] : i \in 1..minted}

CycleStep ==
    \/ \E r \in Rids, published \in BOOLEAN : LockWake(r, published)
    \/ \E r \in Rids : Receive(r)
    \/ \E r \in Rids : Timeout(r)

PortalNext ==
    \/ \E r \in Rids, connected, published \in BOOLEAN :
          StartEnter(r, connected, published)
    \/ \E r \in Rids, uid \in SubmitUids, wallet \in BOOLEAN :
          SubmitEnter(r, uid, wallet)
    \/ CycleStep
    \/ \E t \in Topics, r \in Rids :
          \E body \in Bodies(t) : ControllerRespond(t, r, body)
    \/ \E r \in Rids : StartGet(r)
    \/ \E r \in Rids : StartUpsert(r)
    \/ \E r \in Rids : SubmitUidGet(r)
    \/ \E r \in Rids : SubmitGet(r)
    \/ \E r \in Rids : SubmitUpsert(r)
    \/ \E r \in Rids, ok \in BOOLEAN : SubmitCard(r, ok)
    \/ \E r \in Rids, ok \in BOOLEAN : SubmitAuth(r, ok)
    \/ \E r \in Rids : SubmitMarkFailed(r)
    \/ \E r \in Rids, connected, published \in BOOLEAN :
          SubmitMark(r, connected, published)

SpecPortal == PortalInit /\ [][PortalNext]_vars

\* The event loop runs every task that can run, and the timer of wait_for
\* fires: a cycle that can take a step takes one.
SpecPortalLive == SpecPortal /\ WF_vars(CycleStep)

(***************************************************************************)
(* Claims about the request/response cycle and the two handlers.           *)
(***************************************************************************)
SubmitsOf(u) == {r \in Rids : reqs[r].kind = "submit" /\ reqs[r].uid = u}
Acquired(r) == \E i \in DOMAIN reqs[r].steps : reqs[r].steps[i] = "acquire"

\* C11 (single-flight correlation): the response a round trip returns answers
\* the request that round trip published, never the request of another round
\* trip, a late answer to a timed-out round trip included.
C11_OwnResponseOnly ==
    \A r \in Rids : reqs[r].got # NoRid => reqs[r].got = r

\* C12 (fail-fast on contention): no caller, /submit_payment included, ever
\* waits in the queue of the mutex; a caller that finds it held returns busy.
C12_NeverQueued ==
    /\ lock.waiters = <<>>
    /\ \A r \in Rids : reqs[r].pc # "lockwait"

\* C13 (mutex released on every exit): a request that has left its cycle (by a
\* response, a timeout or a failed publish) does not hold the mutex, the
\* holder is always a request inside its cycle, every cycle ends, and every
\* queued caller eventually acquires the mutex.
C13_MutexReleased ==
    /\ [](\A r \in Rids :
            /\ lock.holder = r => reqs[r].pc = "wait"
            /\ reqs[r].pc = "wait" => lock.holder = r)
    /\ \A r \in Rids : (lock.holder = r) ~> (lock.holder # r)
    /\ \A r \in Rids : (reqs[r].pc = "lockwait") ~> Acquired(r)

\* A caller that queued behind a cycle holds the mutex after that cycle ended
\* by a timeout.
C13_Witness ==
    \E r1, r2 \in Rids :
       /\ reqs[r1].result = "timeout"
       /\ reqs[r2].steps # <<>> /\ reqs[r2].steps[1] = "queued"
       /\ lock.holder = r2

\* C14 (stale-message draining): the queue is drained after the mutex is
\* acquired and before the request is published, and a message that was in
\* the queue at the drain is never what the round trip waits for or returns.
C14_StaleDrained ==
    \A r \in Rids :
       LET req == reqs[r]
           q   == topicQ[TopicOf(req.kind)]
           own == IF req.steps # <<>> /\ req.steps[1] = "queued"
                  THEN Tail(req.steps) ELSE req.steps
       IN  /\ req.got \notin req.stale
           /\ req.pc = "wait" => \A i \in DOMAIN q : q[i].re \notin req.stale
           /\ Len(own) >= 1 => own[1] = "acquire"
           /\ Len(own) >= 2 => own[2] = "drain"
           /\ \A i \in DOMAIN own : own[i] = "publish" => i = 3

\* A round trip found the late answer to an earlier one in the queue, and
\* returned the answer to its own request.
C14_Witness ==
    \E r \in Rids :
       /\ reqs[r].stale # {}
       /\ reqs[r].got = r

\* C15 (idempotent short-circuit): when the session of the booking is found
\* AUTHORIZED or CAPTURED, /start returns the existing record without minting
\* a token or writing the store, and /submit_payment returns the stored
\* payment reference without a gateway call or a change of the row.
C15_ShortCircuit ==
    \A r \in Rids :
       LET req == reqs[r]
       IN  req.seen \in {"AUTHORIZED", "CAPTURED"} =>
              /\ req.pc = "done"
              /\ req.writes = 0 /\ req.calls = 0
              /\ req.payment_id = sessions[KeyOf(req)].square_payment_id
              /\ req.kind = "start" => req.result = "existing" /\ req.uid = NULL
              /\ req.kind = "submit" => req.result = "idempotent"

\* A second /submit_payment for an authorised booking got the stored payment
\* reference back.
C15_Witness ==
    \E r \in Rids :
       /\ reqs[r].kind = "submit" /\ reqs[r].result = "idempotent"
       /\ reqs[r].seen = "AUTHORIZED"
       /\ reqs[r].payment_id = "pay1"

\* The /start case: the existing record of a captured booking.
C15_WitnessStart ==
    \E r \in Rids :
       /\ reqs[r].kind = "start" /\ reqs[r].result = "existing"
       /\ reqs[r].seen = "CAPTURED"

\* C16 (initiator failure is persisted): when, after a successful
\* authorisation, the controller refuses, the round trip times out or the
\* request cannot be published, the session is FAILED with an error text.
C16_FailurePersisted ==
    \A r \in Rids :
       LET req == reqs[r]
       IN  (req.kind = "submit" /\ req.pc = "done"
              /\ req.result \in {"refused", "timeout", "publish_failed"}) =>
              /\ sessions[KeyOf(req)].state = "FAILED"
              /\ sessions[KeyOf(req)].last_error # NoError

\* C17 (timeout leaves the session in its prior state): the step in which a
\* round trip times out changes neither the store nor the pending tokens, and
\* a /start that timed out has written nothing and minted nothing.
C17_TimeoutKeepsPriorState ==
    /\ [](\A r \in Rids :
            (reqs[r].kind = "start" /\ reqs[r].result = "timeout") =>
               reqs[r].writes = 0 /\ reqs[r].uid = NULL)
    /\ [][\A r \in Rids :
            (reqs[r].result # "timeout" /\ reqs'[r].result = "timeout") =>
               /\ sessions' = sessions
               /\ pending' = pending
               /\ holds' = holds]_vars

\* The authorize round trip timed out; the session is still AUTHORIZED.
C17_Witness ==
    \E r \in Rids :
       /\ reqs[r].kind = "submit" /\ reqs[r].result = "timeout"
       /\ sessions[KeyOf(reqs[r])].state = "AUTHORIZED"

\* C18 (one-time token): of the /submit_payment requests that carry the same
\* token, at most one gets past the token validation and reaches the gateway.
C18_TokenUsedOnce ==
    \A u \in SubmitUids :
       Cardinality({r \in SubmitsOf(u) : reqs[r].calls > 0}) <= 1

\* C19 (token recovery after restart): a token that is not in memory is
\* recovered exactly when a session with that token is stored and is not
\* AUTHORIZED or CAPTURED, with the stored booking id and authorised amount;
\* otherwise the request is rejected without a gateway call or a store write.
C19_TokenRecovery ==
    /\ [](\A r \in Rids :
            LET req == reqs[r]
            IN  /\ req.via = "db" =>
                      req.rec \notin {"UNREAD", "ABSENT", "AUTHORIZED", "CAPTURED"}
                /\ req.via = "rejected" =>
                      /\ req.rec \in {"ABSENT", "AUTHORIZED", "CAPTURED"}
                      /\ req.pc = "done" /\ req.result = "rejected"
                      /\ req.calls = 0 /\ req.writes = 0
                /\ req.rec # "UNREAD" => req.via \in {"db", "rejected"})
    /\ [][\A r \in Rids :
            (reqs[r].via = "none" /\ reqs'[r].via = "db") =>
               \E k \in SessionsByUid(sessions, reqs[r].uid) :
                  /\ reqs'[r].booking_id = sessions[k].booking_id
                  /\ reqs'[r].amount = sessions[k].authorized_amount_cents
                  /\ sessions' = sessions]_vars

\* After a restart the token of a stored session was recovered and the
\* request went on to the gateway.
C19_Witness ==
    \E r \in Rids :
       /\ reqs[r].via = "db" /\ reqs[r].rec = "AWAITING_PAYMENT_INFO"
       /\ reqs[r].booking_id = "b1"
       /\ reqs[r].calls > 0

\* The other case: the token of a captured session is rejected.
C19_WitnessRejected ==
    \E r \in Rids :
       reqs[r].via = "rejected" /\ reqs[r].rec = "CAPTURED"

(***************************************************************************)
(* admin/router.py: capture, void, refund and reauthorize of one session,  *)
(* one action per await.  Several admin requests may be running.           *)
(***************************************************************************)
AdminActions == {"capture", "void", "refund", "reauthorize"}

\* The state each action asks for.
RequiredState(action) ==
    IF action \in {"capture", "void"} THEN "AUTHORIZED" ELSE "CAPTURED"

\* The checks between _get_or_404 and the gateway call, in the order of the
\* code: capture, void and refund look at the payment reference first and at
\* the state second; reauthorize looks at the state first and at the card
\* and customer references second.
AdminCheckNoState(action, row) ==
    IF action = "reauthorize"
    THEN IF Falsy(row.square_card_id) \/ Falsy(row.square_customer_id)
         THEN "unprocessable" ELSE "ok"
    ELSE IF Falsy(row.square_payment_id) THEN "unprocessable" ELSE "ok"
AdminCheck(action, row) ==
    IF action = "reauthorize"
    THEN IF row.state # "CAPTURED" THEN "conflict"
         ELSE IF Falsy(row.square_card_id) \/ Falsy(row.square_customer_id)
         THEN "unprocessable" ELSE "ok"
    ELSE IF Falsy(row.square_payment_id) THEN "unprocessable"
         ELSE IF row.state # RequiredState(action) THEN "conflict" ELSE "ok"

\* The amount the request carries: none for void, optional for refund; the
\* smallest and the largest amount stand for the others.
AdminAmounts(action) ==
    IF action = "void" THEN {NullInt}
    ELSE IF action = "refund" THEN {NullInt, 1}
    ELSE {1, MaxAmount}

AdmDone(req, res) == [req EXCEPT !.pc = "done", !.result = res]

NextAid(a) ==
    adm[a].action = "none" /\ (IF a = 1 THEN TRUE ELSE adm[a - 1].action # "none")

\* session = await _get_or_404(idempotency_key), and the checks after it.
AdminRead(a, action, amount) ==
    /\ NextAid(a)
    /\ LET req == [AdmNone EXCEPT !.action = action, !.amount = amount]
       IN  adm' = [adm EXCEPT ![a] =
              IF B1Key \notin DOMAIN sessions
              THEN AdmDone(req, "not_found")
              ELSE LET row == sessions[B1Key]
                       chk == AdminCheck(action, row)
                   IN  IF chk = "ok"
                       THEN [req EXCEPT !.pc = "gateway", !.before = row]
                       ELSE AdmDone([req EXCEPT !.before = row], chk)]
    /\ UNCHANGED <<storeVars, finVars, portalVars, audit, refunds>>

\* refund_payment can return: POST /v2/refunds against a completed payment.
RefundCanSucceed(h, payment_id) ==
    payment_id \in DOMAIN h /\ h[payment_id] = "COMPLETED"
RefundNames == <<"rf1", "rf2", "rf3", "rf4">>
RefundId(n) == RefundNames[n]

\* The key /submit_payment sent with the first authorisation: the booking id.
OriginalIdem(booking) == <<booking>>

\* reauth_idem = f"reauth-{idempotency_key[:20]}-{str(_uuid.uuid4())[:8]}":
\* the uuid is new for every request n.
ReauthIdemReused(booking, n) == <<booking>>
ReauthIdem(booking, n) == <<"reauth", booking, n>>

\* The gateway answers a key it has seen with the payment it created for it,
\* and creates a new payment for a new key.
ReauthNames == <<"pay2", "pay3", "pay4", "pay5">>
ReauthPaymentId(h, idem, booking) ==
    IF idem = OriginalIdem(booking) THEN PaymentIdFor(booking)
    ELSE ReauthNames[Cardinality(DOMAIN h)]

\* The gateway call of the action: it returns the payment or refund object,
\* or raises.
AdminGateway(a, ok) ==
    LET req == adm[a]
        pid == req.before.square_payment_id
        can == CASE req.action = "capture" -> CaptureCanSucceed(holds, pid)
                 [] req.action = "void"    -> CancelCanSucceed(holds, pid)
                 [] req.action = "refund"  -> RefundCanSucceed(holds, pid)
                 [] OTHER                  -> TRUE
        won == ok /\ can
        key == IF req.action = "reauthorize"
               THEN ReauthIdem(req.before.booking_id, a) ELSE <<>>
        res == CASE req.action = "capture" ->
                      [ok |-> TRUE, id |-> pid, amount |-> req.amount]
                 [] req.action = "void" ->
                      [ok |-> TRUE, id |-> pid, amount |-> NullInt]
                 [] req.action = "refund" ->
                      [ok |-> TRUE, id |-> RefundId(Len(refunds) + 1),
                       amount |-> IF req.amount = NullInt
                                  THEN req.before.captured_amount_cents
                                  ELSE req.amount]
                 [] OTHER ->
                      [ok |-> TRUE,
                       id |-> ReauthPaymentId(holds, key, req.before.booking_id),
                       amount |-> req.amount]
    IN  /\ req.pc = "gateway"
        /\ holds' = IF ~won THEN holds
                    ELSE CASE req.action = "capture" -> CaptureEffect(holds, pid)
                           [] req.action = "void"    -> CancelEffect(holds, pid)
                           [] req.action = "refund"  -> holds
                           [] OTHER -> AuthorizeEffect(holds, res.id)
        /\ refunds' = IF won /\ req.action = "refund"
                      THEN Append(refunds, [payment_id |-> pid, amount |-> res.amount])
                      ELSE refunds
        /\ adm' = [adm EXCEPT ![a] =
              IF won THEN [req EXCEPT !.pc = "mark", !.gw = res, !.idem = key,
                                      !.calls = @ + 1]
              ELSE [req EXCEPT !.pc = "audit", !.idem = key, !.calls = @ + 1]]
        /\ UNCHANGED <<storeVars, charges, queue, fin, log, dbErrors, exit,
                       settled, portalVars, audit>>

\* await db.mark_captured / mark_canceled / mark_refunded / mark_authorized.
AdminMark(a) ==
    LET req == adm[a]
        pid == req.before.square_payment_id
    IN  /\ req.pc = "mark"
        /\ sessions' =
              CASE req.action = "capture" ->
                     MarkCaptured(sessions, B1Key, req.gw.id, req.amount, now)
                [] req.action = "void" ->
                     MarkCanceled(sessions, B1Key, pid, now)
                [] req.action = "refund" ->
                     MarkRefunded(sessions, B1Key, req.gw.id, req.gw.amount, now)
                [] OTHER ->
                     MarkAuthorized(sessions, B1Key, req.gw.id, req.amount,
                        [square_customer_id |-> req.before.square_customer_id,
                         square_card_id |-> req.before.square_card_id], now)
        /\ adm' = [adm EXCEPT ![a] = [req EXCEPT !.pc = "after", !.writes = @ + 1]]
        /\ UNCHANGED <<now, inflight, batch, batchPre, submitted, finVars,
                       portalVars, audit, refunds>>

\* after = await db.get_session(idempotency_key)
AdminAfter(a) ==
    LET req == adm[a]
    IN  /\ req.pc = "after"
        /\ adm' = [adm EXCEPT ![a] =
              [req EXCEPT !.pc = "audit",
                          !.after = IF B1Key \in DOMAIN sessions
                                    THEN sessions[B1Key] ELSE NoRowRec]]
        /\ UNCHANGED <<storeVars, finVars, portalVars, audit, refunds>>

\* await db.write_audit_log(...); the response, or 502 after a gateway error.
AdminAudit(a) ==
    LET req == adm[a]
    IN  /\ req.pc = "audit"
        /\ audit' = Append(audit, [action |-> req.action, before |-> req.before,
                                   after |-> req.after, ok |-> req.gw.ok,
                                   by |-> a])     \* history: the request
        /\ adm' = [adm EXCEPT ![a] =
              AdmDone(req, IF req.gw.ok THEN "ok" ELSE "bad_gateway")]
        /\ UNCHANGED <<storeVars, finVars, portalVars, refunds>>

\* The sessions an admin may act on: those of the reconciler's scenarios and
\* a key with no session.
AdminScenarios == FinScenarios \cup { << <<>>, "NONE" >> }

AdminInit ==
    /\ now = 0
    /\ StoreQuiet
    /\ \E sc \in AdminScenarios :
          /\ sessions = sc[1]
          /\ holds = IF sc[2] = "NONE" THEN <<>> ELSE [p \in {"pay1"} |-> sc[2]]
    /\ charges = <<>>
    /\ queue = <<>>
    /\ fin = FinIdle
    /\ log = <<>>
    /\ dbErrors = 0
    /\ exit = "none"
    /\ settled = 0
    /\ PortalQuiet
    /\ AdminQuiet

AdminNext ==
    \/ \E a \in AdminIds, action \in AdminActions :
          \E amount \in AdminAmounts(action) : AdminRead(a, action, amount)
    \/ \E a \in AdminIds, ok \in BOOLEAN : AdminGateway(a, ok)
    \/ \E a \in AdminIds : AdminMark(a)
    \/ \E a \in AdminIds : AdminAfter(a)
    \/ \E a \in AdminIds : AdminAudit(a)

SpecAdmin == AdminInit /\ [][AdminNext]_vars

(***************************************************************************)
(* Claims about the admin actions.                                         *)
(***************************************************************************)
\* The request read a session whose state is not the one its action asks for.
WrongState(req) ==
    /\ req.action # "none"
    /\ req.before # NoRowRec
    /\ req.before.state # RequiredState(req.action)

NoPaymentRef(req) ==
    req.action # "reauthorize" /\ Falsy(req.before.square_payment_id)

\* C20 as stated (admin state preconditions): an admin action on a session in
\* another state than the one it requires is rejected as a conflict, makes no
\* gateway call and leaves the row unchanged.
C20_WrongStateIsConflict ==
    \A a \in AdminIds :
       WrongState(adm[a]) =>
          /\ adm[a].pc = "done" /\ adm[a].result = "conflict"
          /\ adm[a].calls = 0 /\ adm[a].writes = 0

\* C20 (admin state preconditions): capture and void reach the gateway only
\* for a session read as AUTHORIZED, refund and reauthorize only for one read
\* as CAPTURED; in any other state the action is rejected, as unprocessable
\* when capture, void or refund find no payment reference on the session and
\* as a conflict otherwise, with no gateway call and no store write, and the
\* rejecting step changes neither the store nor the gateway nor the audit log.
C20_StatePreconditions ==
    /\ [](\A a \in AdminIds :
            LET req == adm[a]
            IN  /\ (req.pc \notin {"none", "done"} \/ req.calls > 0 \/ req.writes > 0) =>
                      req.before # NoRowRec /\ req.before.state = RequiredState(req.action)
                /\ WrongState(req) =>
                      /\ req.pc = "done"
                      /\ req.result = IF NoPaymentRef(req) THEN "unprocessable"
                                      ELSE "conflict"
                      /\ req.calls = 0 /\ req.writes = 0)
    /\ [][\A a \in AdminIds :
            (adm[a].action = "none" /\ WrongState(adm'[a])) =>
               /\ sessions' = sessions
               /\ holds' = holds
               /\ refunds' = refunds
               /\ audit' = audit]_vars

\* A refund of a session that is still AUTHORIZED was rejected as a conflict.
C20_Witness ==
    \E a \in AdminIds :
       /\ adm[a].action = "refund" /\ adm[a].result = "conflict"
       /\ adm[a].before.state = "AUTHORIZED"
       /\ adm[a].calls = 0

\* The other rejection: a capture of a session that has no payment yet.
C20_WitnessUnprocessable ==
    \E a \in AdminIds :
       /\ adm[a].action = "capture" /\ adm[a].result = "unprocessable"
       /\ adm[a].before.state = "AWAITING_PAYMENT_INFO"

\* The accepted case: a capture of an AUTHORIZED session went through.
C20_WitnessProceeds ==
    \E a \in AdminIds :
       /\ adm[a].action = "capture" /\ adm[a].result = "ok"
       /\ adm[a].before.state = "AUTHORIZED"
       /\ sessions[B1Key].state = "CAPTURED"

\* C21 (every admin action is audited): every admin request that has returned
\* left an entry in the audit log, whatever its outcome, and entries are only
\* ever appended.
C21_EveryInvocationAudited ==
    /\ [](\A a \in AdminIds :
            (adm[a].pc = "done" /\ adm[a].result # "not_found") =>
               \E i \in DOMAIN audit : audit[i].by = a)
    /\ [][/\ Len(audit') >= Len(audit)
          /\ \A i \in DOMAIN audit : audit'[i] = audit[i]]_vars

\* The step in which request a writes the result of its reauthorization.
ReauthMarks(a) ==
    adm[a].action = "reauthorize" /\ adm[a].pc = "mark" /\ adm'[a].pc = "after"

\* C22 (reauthorize): a reauthorize reaches the gateway only for a session read
\* as CAPTURED with a card and a customer reference; its idempotency key is
\* not the key of the original authorisation nor the key of another request;
\* and its store write leaves the session AUTHORIZED with the new payment
\* reference, different from the original, the requested amount and no error
\* text: a session the reconciler does not skip, with a hold it can capture.
C22_Reauthorize ==
    /\ [](\A a \in AdminIds :
            (adm[a].action = "reauthorize" /\ adm[a].calls > 0) =>
               /\ adm[a].before.state = "CAPTURED"
               /\ ~Falsy(adm[a].before.square_card_id)
               /\ ~Falsy(adm[a].before.square_customer_id)
               /\ adm[a].idem # OriginalIdem(adm[a].before.booking_id)
               /\ \A b \in AdminIds \ {a} : adm[b].idem # adm[a].idem)
    /\ [][\A a \in AdminIds :
            ReauthMarks(a) =>
               LET req == adm[a]
                   row == sessions'[B1Key]
               IN  /\ row.state = "AUTHORIZED"
                   /\ row.square_payment_id = req.gw.id
                   /\ req.gw.id # req.before.square_payment_id
                   /\ row.authorized_amount_cents = req.amount
                   /\ row.last_error = NoError
                   /\ row.square_card_id = req.before.square_card_id
                   /\ ~AlreadySettled(row.state)
                   /\ CaptureCanSucceed(holds', row.square_payment_id)]_vars

\* A captured session was reauthorized for another amount than it was
\* captured at, and the handler returned.
C22_Witness ==
    \E a \in AdminIds :
       /\ adm[a].action = "reauthorize" /\ adm[a].result = "ok"
       /\ adm[a].before.state = "CAPTURED"
       /\ adm[a].amount # adm[a].before.authorized_amount_cents
       /\ sessions[B1Key].state = "AUTHORIZED"
       /\ sessions[B1Key].square_payment_id = adm[a].gw.id
       /\ sessions[B1Key].square_payment_id # "pay1"

(***************************************************************************)
(* Claims about the session state machine and the store's writers.         *)
(***************************************************************************)
SpecifiedStates ==
    {"AWAITING_PAYMENT_INFO", "AUTHORIZED", "CAPTURED", "CANCELED", "FAILED",
     "VOIDED", "REFUNDED"}

SpecifiedEdges ==
    { <<"AWAITING_PAYMENT_INFO", "AUTHORIZED">>,
      <<"AUTHORIZED", "CAPTURED">>, <<"AUTHORIZED", "CANCELED">>,
      <<"AUTHORIZED", "FAILED">>,   <<"AUTHORIZED", "VOIDED">>,
      <<"CAPTURED", "REFUNDED">>,   <<"CAPTURED", "AUTHORIZED">>,
      <<"CAPTURED", "FAILED">>,
      <<"FAILED", "CAPTURED">> }

\* C23 (state-machine conformance): the state of every session is one of the
\* specified states, and every change of a session's state is one of the
\* specified edges.
C23_StateMachine ==
    /\ [](\A k \in DOMAIN sessions : sessions[k].state \in SpecifiedStates)
    /\ [][\A k \in DOMAIN sessions \cap DOMAIN sessions' :
            sessions'[k].state # sessions[k].state =>
               <<sessions[k].state, sessions'[k].state>> \in SpecifiedEdges]_vars

\* An upsert_session call proposing the initial state, and the two writers of
\* the states it must not overwrite.
InitialUpserts == {c \in UpsertCalls : c[3].state = "AWAITING_PAYMENT_INFO"}
ProtectedMarks == {c \in MarkCalls : c[1] \in {"mark_authorized", "mark_captured"}}

\* The state the two calls leave on key k when u runs before m, and when m
\* runs before u, on the table tbl.
UpsertThenMark(tbl, u, m, k) == RowState(RunCall(RunCall(tbl, u, now), m, now), k)
MarkThenUpsert(tbl, u, m, k) == RowState(RunCall(RunCall(tbl, m, now), u, now), k)

\* Two calls overlapped in worker threads and both have run: the pairs
\* <<u, m>> of them in which u is an upsert proposing AWAITING_PAYMENT_INFO
\* and m a mark_authorized / mark_captured on the same key.
RacedPairs ==
    IF inflight = {} /\ Len(batch) = 2
    THEN { p \in {<<batch[1][1], batch[2][1]>>, <<batch[2][1], batch[1][1]>>} :
             /\ p[1] \in InitialUpserts
             /\ p[2] \in ProtectedMarks
             /\ p[1][2] = p[2][2] }
    ELSE {}

\* C24 as stated (commutativity whether or not the row existed): when an
\* upsert proposing AWAITING_PAYMENT_INFO and a mark_authorized /
\* mark_captured on the same key overlapped and have both run, the state they
\* left is the one either order of the two leaves on the table they started
\* from.
C24_CommuteOnAnyTable ==
    \A p \in RacedPairs :
        /\ RowState(sessions, p[1][2]) = UpsertThenMark(batchPre, p[1], p[2], p[1][2])
        /\ RowState(sessions, p[1][2]) = MarkThenUpsert(batchPre, p[1], p[2], p[1][2])

\* C24 (amended): when the key has a row beforehand, an upsert proposing
\* AWAITING_PAYMENT_INFO and a mark_authorized / mark_captured on it that
\* overlapped and have both run left the state either order of the two leaves
\* on the table they started from, which is the state of the mark call.
C24_CommuteOnExistingRow ==
    \A p \in RacedPairs :
        p[1][2] \in DOMAIN batchPre =>
            /\ RowState(sessions, p[1][2]) = UpsertThenMark(batchPre, p[1], p[2], p[1][2])
            /\ RowState(sessions, p[1][2]) = MarkThenUpsert(batchPre, p[1], p[2], p[1][2])
            /\ RowState(sessions, p[1][2]) =
                  (IF p[2][1] = "mark_authorized" THEN "AUTHORIZED" ELSE "CAPTURED")

\* mark_authorized ran before the overlapping upsert on a row that was not in
\* a protected state, and the row is AUTHORIZED.
C24_Witness ==
    /\ inflight = {}
    /\ Len(batch) = 2
    /\ batch[1][1] \in ProtectedMarks
    /\ batch[1][1][1] = "mark_authorized"
    /\ batch[2][1] \in InitialUpserts
    /\ batch[2][1][2] = batch[1][1][2]
    /\ batch[1][1][2] \in DOMAIN batchPre
    /\ batchPre[batch[1][1][2]].state \notin Protected
    /\ sessions[batch[1][1][2]].state = "AUTHORIZED"

\* The step in which the worker thread of store call c runs its statement.
Ran(c) ==
    /\ c \in inflight
    /\ c \notin inflight'
    /\ Len(batch') = Len(batch) + 1
    /\ batch'[Len(batch')][1] = c

\* C25 (mark_authorized): on a key that has no row the call changes nothing
\* and creates no row; on an existing row, in whatever state, it sets state
\* AUTHORIZED, stores the payment reference and the amount and clears
\* last_error.
C25_MarkAuthorized ==
    [][\A c \in MarkCalls :
         (c[1] = "mark_authorized" /\ Ran(c)) =>
            IF c[2] \in DOMAIN sessions
            THEN /\ DOMAIN sessions' = DOMAIN sessions
                 /\ sessions'[c[2]].state = "AUTHORIZED"
                 /\ sessions'[c[2]].square_payment_id = c[3]
                 /\ sessions'[c[2]].authorized_amount_cents = c[4]
                 /\ sessions'[c[2]].last_error = NoError
            ELSE sessions' = sessions]_vars

\* mark_authorized ran on a row that was FAILED with an error text.
C25_Witness ==
    /\ batch # <<>>
    /\ LastCall[1] = "mark_authorized"
    /\ LastPre = "FAILED"
    /\ sessions[LastCall[2]].state = "AUTHORIZED"
    /\ sessions[LastCall[2]].last_error = NoError

\* mark_authorized ran on a key without a row, and the table is still empty.
C25_WitnessMissingKey ==
    /\ batch # <<>>
    /\ LastCall[1] = "mark_authorized"
    /\ LastPre = "ABSENT"
    /\ sessions = <<>>

\* C26 (row identity): every row is stored under its own idempotency key, and
\* no step of the store removes a row or changes its created_at, whatever
\* call ran (upsert, mark_*, add_note, soft_delete).
C26_RowIdentity ==
    /\ [](\A k \in DOMAIN sessions : sessions[k].idempotency_key = k)
    /\ [][\A k \in DOMAIN sessions :
            /\ k \in DOMAIN sessions'
            /\ sessions'[k].created_at = sessions[k].created_at]_vars

\* A row created at time 0 was soft-deleted and upserted again at a later
\* time: it is still there, flagged, with its first created_at.
C26_Witness ==
    /\ batch # <<>>
    /\ LastCall[1] = "upsert"
    /\ LastPre # "ABSENT"
    /\ sessions[LastCall[2]].is_deleted = 1
    /\ sessions[LastCall[2]].updated_at > sessions[LastCall[2]].created_at

\* C27 (direct-charge idempotency key): every direct-charge attempt of the
\* handler sends the key derived from the key of the session it read, so all
\* attempts of a handling send one key; over all deliveries the gateway has
\* seen no other key for a session, and it holds at most one charge per
\* session.
C27_StableChargeKey ==
    /\ \A i \in CallsOf("charge") :
          log[i][5] = ChargeIdem(fin.row.idempotency_key)
    /\ \A i, j \in CallsOf("charge") : log[i][5] = log[j][5]
    /\ \A idem \in DOMAIN charges :
          idem[2] \in DOMAIN sessions /\ idem = ChargeIdem(idem[2])
    /\ \A k \in DOMAIN sessions :
          Cardinality({idem \in DOMAIN charges : idem[2] = k}) <= 1

\* A direct charge returned, the store write after it raised, the retry sent
\* the same key and the gateway answered with the charge it already had.
C27_Witness ==
    /\ Cardinality(OkCallsOf("charge")) >= 2
    /\ Cardinality(DOMAIN charges) = 1
    /\ settled = 1

\* A redelivery for a session that the charge loop had marked FAILED: the
\* charge of this delivery returned the one charge of the session.
C27_WitnessRedelivered ==
    /\ Found
    /\ fin.row.state = "FAILED"
    /\ fin.row.last_error # NoError
    /\ fin.row.last_error[1] = "direct charge failed after"
    /\ OkCallsOf("charge") # {}
    /\ Cardinality(DOMAIN charges) = 1

\* The handler is in the overcharge branch: a row that is not settled, with a
\* payment reference, billed above its hold.
OverchargeBranch ==
    /\ Proceeds /\ HasPaymentRef
    /\ fin.final # 0
    /\ ExceedsPreauth(fin.final, fin.row)

\* Every attempt of the void of the pre-authorisation was made and failed.
VoidExhausted ==
    /\ Cardinality(CallsOf("cancel")) = _MAX_RETRIES
    /\ OkCallsOf("cancel") = {}

\* C28 (best-effort void): in the overcharge branch no failure of the void
\* writes to the store or becomes the handler's error; when all its attempts
\* failed and the card and customer references are stored, the handler is in
\* the direct-charge loop or past it, it does not end without having attempted
\* the charge, and a FAILED mark it wrote is that of the charge loop.
C28_VoidIsBestEffort ==
    OverchargeBranch =>
        /\ fin.error # NoError =>
              fin.error[1] \in {"direct charge failed after",
                                "overcharge: missing card_id or customer_id"}
        /\ (CallsOf("charge") = {} /\ fin.pc \notin {"fail", "done"}) =>
              CurRow = fin.row
        /\ (VoidExhausted /\ HasCardRefs) =>
              /\ fin.pc \in {"charge", "charge_mark", "sleep", "fail", "done"}
              /\ fin.pc = "sleep" => fin.resume = "charge"
              /\ fin.pc \in {"charge_mark", "fail", "done"} => CallsOf("charge") # {}
              /\ (CurRow # fin.row /\ CurRow.state = "FAILED") =>
                    /\ Cardinality(CallsOf("charge")) = _MAX_RETRIES
                    /\ CurRow.last_error[1] = "direct charge failed after"

\* All void attempts failed, the direct charge returned and the session is
\* CAPTURED.
C28_Witness ==
    /\ OverchargeBranch /\ HasCardRefs /\ VoidExhausted
    /\ Succeeded
    /\ OkCallsOf("charge") # {}
    /\ CurRow.state = "CAPTURED"
    /\ CurRow.captured_amount_cents = fin.final

\* The gateway call of /submit_payment request r that raised: create_card, or
\* create_payment_authorization (the second call of the card path, the only
\* one of the wallet path).
Rejected(r) == reqs[r].kind = "submit" /\ reqs[r].err # NoError
CallsUpTo(r) ==
    IF reqs[r].err = CardError \/ reqs[r].wallet THEN 1 ELSE 2

\* C29 (gateway rejection): a /submit_payment whose card creation or
\* authorisation the gateway rejected made that call once and no gateway call
\* after it, never entered the authorize round trip and published nothing,
\* answers card_error, and its store write leaves the session FAILED with the
\* gateway's message.
C29_GatewayRejection ==
    /\ [](\A r \in Rids :
            /\ Rejected(r) =>
                  /\ reqs[r].pc \in {"failed", "done"}
                  /\ reqs[r].calls = CallsUpTo(r)
                  /\ reqs[r].steps = <<>>
                  /\ <<"authorize", r>> \notin bus
                  /\ reqs[r].pc = "done" =>
                        reqs[r].result = "card_error" /\ reqs[r].writes = 2
            /\ reqs[r].result = "card_error" => Rejected(r))
    /\ [][\A r \in Rids :
            (Rejected(r) /\ reqs[r].pc = "failed" /\ reqs'[r].pc = "done") =>
               /\ KeyOf(reqs[r]) \in DOMAIN sessions'
               /\ sessions'[KeyOf(reqs[r])].state = "FAILED"
               /\ sessions'[KeyOf(reqs[r])].last_error = reqs[r].err]_vars

\* The card was stored and the authorisation rejected: the handler answered
\* card_error after two gateway calls and the session is FAILED with the
\* authorisation's message.
C29_Witness ==
    \E r \in Rids :
       /\ Rejected(r) /\ reqs[r].pc = "done"
       /\ ~reqs[r].wallet
       /\ reqs[r].err = AuthError
       /\ reqs[r].calls = 2
       /\ sessions[KeyOf(reqs[r])].state = "FAILED"
       /\ sessions[KeyOf(reqs[r])].last_error = AuthError

\* The row the handler read is one the reconciler itself marked FAILED when a
\* loop had used all its attempts.
ReconcilerFailed ==
    /\ Found
    /\ fin.row.state = "FAILED"
    /\ fin.row.last_error # NoError
    /\ fin.row.last_error[1] \in {"void failed after", "direct charge failed after",
                                  "capture failed after"}

\* The gateway call that settles the amount of this payload returned.
SettlingCallOk ==
    CASE fin.final = 0                     -> OkCallsOf("cancel") # {}
      [] fin.final # 0 /\ ExceedsPreauth(fin.final, fin.row)  -> OkCallsOf("charge") # {}
      [] OTHER                             -> OkCallsOf("capture") # {}

\* C30 (FAILED is not terminal): a finalize payload for a session the
\* reconciler had marked FAILED after its retries is handled like one for an
\* AUTHORIZED session: the handler does not skip it and calls the gateway
\* again; when it returns from the try of a loop the row is VOIDED (final
\* amount 0) or CAPTURED, and it does so whenever the settling gateway call
\* returned and no store call raised.
C30_FailedIsRetried ==
    ReconcilerFailed =>
        /\ HasPaymentRef
        /\ fin.pc \notin {"idle", "lookup"}
        /\ Done => Calls # {}
        /\ Succeeded =>
              CurRow.state = (IF fin.final = 0 THEN "VOIDED" ELSE "CAPTURED")
        /\ (Done /\ dbErrors = 0 /\ SettlingCallOk) => Succeeded

\* A redelivery for a session whose capture loop had given up: this time the
\* capture returned and the session is CAPTURED.
C30_Witness ==
    /\ ReconcilerFailed
    /\ fin.row.last_error[1] = "capture failed after"
    /\ Succeeded
    /\ OkCallsOf("capture") # {}
    /\ CurRow.state = "CAPTURED"
    /\ CurRow.captured_amount_cents = fin.final

\* The same session redelivered with final amount 0: the hold is cancelled
\* and the session is VOIDED.
C30_WitnessVoided ==
    /\ ReconcilerFailed
    /\ Succeeded
    /\ fin.final = 0
    /\ CurRow.state = "VOIDED"

(***************************************************************************)
(* Claims about store failures, cancellation and the flows that meet on a  *)
(* session.                                                                *)
(***************************************************************************)
\* The store write after a gateway call that returned raised.
WriteFailedAt(i) ==
    /\ log[i][1] = "db"
    /\ log[i][2] \in {"mark_captured", "mark_voided"}
    /\ ~log[i][4]

\* C31 (store write failure is fatal): once a mark_captured or mark_voided
\* that follows a gateway call that returned has raised, the handler makes
\* no further gateway call for that payload.
C31_WriteFailureIsFatal ==
    \A i \in DOMAIN log :
        WriteFailedAt(i) => \A j \in DOMAIN log : j > i => ~IsCall(log[j])

(***************************************************************************)
(* lifespan.py, shutdown: _finalize_task.cancel().  The event loop throws  *)
(* CancelledError into the consumer at the await it is suspended on.       *)
(* CancelledError is a BaseException (the code uses asyncio.to_thread, so  *)
(* Python >= 3.9): no `except Exception` catches it.  From asyncio.sleep   *)
(* it leaves _handle_finalize, passes the consumer's `except Exception`,   *)
(* runs `finally: queue.task_done()` and is re-raised by the consumer's    *)
(* `except asyncio.CancelledError`: the task ends.  SpecShutdown cancels   *)
(* the consumer while it is suspended on queue.get() or on a retry sleep.  *)
(***************************************************************************)
\* The consumer after CancelledError was thrown into it.
\* (CancelledAtSwallowed is a faulty variant: the consumer's except clause
\* takes the cancellation for an error of the payload and goes on.)
CancelledAtSwallowed(f) == [f EXCEPT !.pc = "done"]
CancelledAt(f) == [f EXCEPT !.pc = "stopped"]

\* _finalize_task.cancel(); await asyncio.gather(_finalize_task, ...)
FinCancelTask ==
    /\ fin.pc \in {"idle", "sleep"}
    /\ fin' = CancelledAt(fin)
    /\ exit' = "cancelled"
    /\ UNCHANGED <<storeVars, holds, charges, queue, log, dbErrors, settled>>

ShutdownNext ==
    \/ \E p \in Payloads : Deliver(p) /\ UNCHANGED otherVars
    \/ FinGet /\ UNCHANGED otherVars
    \/ FinLookup /\ UNCHANGED otherVars
    \/ FinCancelCall /\ UNCHANGED otherVars
    \/ FinCaptureCall /\ UNCHANGED otherVars
    \/ FinChargeCall /\ UNCHANGED otherVars
    \/ FinMark /\ UNCHANGED otherVars
    \/ FinSleep /\ UNCHANGED otherVars
    \/ FinMarkFailed /\ UNCHANGED otherVars
    \/ FinTaskDone /\ UNCHANGED otherVars
    \/ FinCancelTask /\ UNCHANGED otherVars

SpecShutdown == FinInit /\ [][ShutdownNext]_vars

\* C32 (cancellation during a retry sleep): once the consumer was cancelled
\* its task has ended, and no step after the cancellation makes a gateway
\* call or a store write or moves the handler: the log of the payload, the
\* sessions and the gateway's payments stay as they were.
C32_CancelStopsRetries ==
    /\ [](exit = "cancelled" => fin.pc = "stopped")
    /\ [][exit = "cancelled" =>
            /\ fin' = fin
            /\ log' = log
            /\ sessions' = sessions
            /\ holds' = holds
            /\ charges' = charges
            /\ exit' = exit]_vars

\* The consumer was cancelled in the sleep after a failed first attempt,
\* with attempts left and another payload waiting in the queue.
C32_Witness ==
    /\ exit = "cancelled"
    /\ fin.pc = "stopped"
    /\ fin.attempt = 1
    /\ fin.resume \in {"void", "ovoid", "charge", "capture"}
    /\ Calls # {}
    /\ queue # <<>>
    /\ CurRow = fin.row

\* The columns a mark call may change.
SettleColumns ==
    {"state", "square_capture_payment_id", "captured_amount_cents", "updated_at"}
FailColumns == {"state", "last_error", "updated_at"}
MarkColumns(name) ==
    IF name = "mark_failed" THEN FailColumns ELSE SettleColumns

\* The step changes no row but that of k, and of it only the columns cols.
FrameOf(k, cols) ==
    /\ DOMAIN sessions' = DOMAIN sessions
    /\ \A j \in DOMAIN sessions :
          /\ DOMAIN sessions'[j] = DOMAIN sessions[j]
          /\ \A col \in DOMAIN sessions[j] :
                (j # k \/ col \notin cols) => sessions'[j][col] = sessions[j][col]

\* C33 (frame of the mark operations): the step in which mark_captured,
\* mark_voided, mark_canceled or mark_refunded runs changes only state, the
\* capture reference, the captured amount and updated_at of the row of its
\* key; mark_failed only state, last_error and updated_at; every other column
\* and every other row stay as they were, and no row appears or disappears.
C33_MarkFrame ==
    [][\A c \in MarkCalls :
         ( /\ Ran(c)
           /\ c[1] \in {"mark_captured", "mark_voided", "mark_canceled",
                        "mark_refunded", "mark_failed"} ) =>
            FrameOf(c[2], MarkColumns(c[1]))]_vars

\* mark_captured ran on a FAILED row that carried an error text, next to the
\* row of another booking: the row is CAPTURED and still carries the text.
C33_Witness ==
    /\ batch # <<>>
    /\ LastCall[1] = "mark_captured"
    /\ LastPre = "FAILED"
    /\ sessions[LastCall[2]].state = "CAPTURED"
    /\ sessions[LastCall[2]].last_error # NoError
    /\ OtherKey \in DOMAIN sessions
    /\ OtherKey # LastCall[2]

\* The columns of the dict /start and /submit_payment hand to upsert_session,
\* without the key and the state.
SuppliedColumns == {"booking_id", "session_id", "authorized_amount_cents"}

\* C34 (upsert protects the state only): the step in which an upsert runs on
\* a row in AUTHORIZED or CAPTURED keeps the state and created_at, stores the
\* proposed token, amount and booking data and the time of the call as
\* updated_at, and changes no other column.
C34_UpsertOverwritesRest ==
    [][\A c \in UpsertCalls :
         ( /\ Ran(c)
           /\ c[2] \in DOMAIN sessions
           /\ sessions[c[2]].state \in Protected ) =>
            /\ sessions'[c[2]].state = sessions[c[2]].state
            /\ \A col \in SuppliedColumns : sessions'[c[2]][col] = c[3][col]
            /\ sessions'[c[2]].updated_at = now
            /\ FrameOf(c[2], SuppliedColumns \cup {"updated_at"})]_vars

\* An upsert with another token and another amount ran on an AUTHORIZED row
\* at a later time: the row is still AUTHORIZED, with the new token and the
\* proposed amount.
C34_Witness ==
    /\ batch # <<>>
    /\ LastCall[1] = "upsert"
    /\ LastPre = "AUTHORIZED"
    /\ LastCall[3].state = "AWAITING_PAYMENT_INFO"
    /\ sessions[LastCall[2]].state = "AUTHORIZED"
    /\ sessions[LastCall[2]].session_id = LastCall[3].session_id
    /\ sessions[LastCall[2]].session_id = "t2"
    /\ sessions[LastCall[2]].authorized_amount_cents = LastCall[3].authorized_amount_cents
    /\ sessions[LastCall[2]].authorized_amount_cents # MaxAmount
    /\ sessions[LastCall[2]].square_payment_id = "pay2"
    /\ sessions[LastCall[2]].updated_at > sessions[LastCall[2]].created_at

\* The step in which request r runs its upsert_session, and the state it
\* proposes.
Upserts(r) ==
    /\ reqs[r].pc = "upsert"
    /\ reqs'[r].pc # "upsert"
ProposedBy(r) ==
    IF reqs[r].kind = "start" THEN "AWAITING_PAYMENT_INFO" ELSE "AUTH_REQUESTED"

\* C35 (the protection covers AUTHORIZED and CAPTURED only): the upsert of
\* /start or /submit_payment keeps the state of a row in AUTHORIZED or
\* CAPTURED and replaces every other state, VOIDED, CANCELED, REFUNDED and
\* FAILED included, with the proposed one; /start answers with the stored
\* session only when it read AUTHORIZED or CAPTURED.
C35_OnlyTwoStatesProtected ==
    /\ [](\A r \in Rids :
            (reqs[r].kind = "start" /\ reqs[r].result = "existing") =>
               reqs[r].seen \in Protected)
    /\ [][\A r \in Rids :
            Upserts(r) =>
               LET k == KeyOf(reqs[r])
               IN  /\ k \in DOMAIN sessions'
                   /\ sessions'[k].state =
                         IF RowState(sessions, k) \in Protected
                         THEN sessions[k].state
                         ELSE ProposedBy(r)]_vars

\* /start for a booking whose session was REFUNDED: the form is served and
\* the session is AWAITING_PAYMENT_INFO again, still carrying the payment
\* and refund references.
C35_Witness ==
    \E r \in Rids :
       /\ reqs[r].kind = "start" /\ reqs[r].result = "form"
       /\ reqs[r].seen = "REFUNDED"
       /\ sessions[KeyOf(reqs[r])].state = "AWAITING_PAYMENT_INFO"
       /\ sessions[KeyOf(reqs[r])].square_payment_id = "pay1"
       /\ sessions[KeyOf(reqs[r])].square_capture_payment_id = "ref1"

\* The same for a session that /submit_payment had marked FAILED.
C35_WitnessFailed ==
    \E r \in Rids :
       /\ reqs[r].kind = "start" /\ reqs[r].result = "form"
       /\ reqs[r].seen = "FAILED"
       /\ sessions[KeyOf(reqs[r])].state = "AWAITING_PAYMENT_INFO"

\* C36 (the reconciler settles in every state but CAPTURED and VOIDED): when
\* the handler read a row with a payment reference in any other state
\* (CANCELED, REFUNDED, FAILED, AUTHORIZED or a state before authorisation),
\* it enters the loop of the final amount, does not end without a gateway
\* call, and when it returns the row is CAPTURED, VOIDED or FAILED.
C36_SettlesInAnyOtherState ==
    (Found /\ HasPaymentRef /\ fin.row.state \notin {"CAPTURED", "VOIDED"}) =>
        /\ fin.pc \in {"void", "ovoid", "capture", "charge", "void_mark",
                       "charge_mark", "capture_mark", "sleep", "fail", "done"}
        /\ Done => Calls # {}
        /\ (Done /\ exit = "return") =>
              CurRow.state \in {"CAPTURED", "VOIDED", "FAILED"}

\* A finalize message above the authorised amount for a REFUNDED session:
\* the void fails, the direct charge returns, the session is CAPTURED.
C36_Witness ==
    /\ Found /\ fin.row.state = "REFUNDED"
    /\ Succeeded
    /\ OkCallsOf("charge") # {}
    /\ CurRow.state = "CAPTURED"

\* A finalize message for a CANCELED session ends FAILED after the retries.
C36_WitnessCanceled ==
    /\ Found /\ fin.row.state = "CANCELED"
    /\ Done /\ exit = "return"
    /\ Cardinality(Calls) = _MAX_RETRIES
    /\ CurRow.state = "FAILED"

\* A finalize message with amount 0 for a session back in
\* AWAITING_PAYMENT_INFO that still carries a payment reference.
C36_WitnessAwaiting ==
    /\ Found /\ fin.row.state = "AWAITING_PAYMENT_INFO" /\ HasPaymentRef
    /\ Done /\ exit = "return"
    /\ Calls # {}
    /\ CurRow.state = "FAILED"

(***************************************************************************)
(* SpecFlows: the reconciler's consumer and the admin actions run in one   *)
(* event loop on one session.  Each await of either flow is a point where  *)
(* the other may run; neither takes a lock (router.py reads the row with   *)
(* _get_or_404, finalize.py with get_session_by_booking_id).  The session  *)
(* starts AUTHORIZED with its pre-authorisation APPROVED at the gateway.   *)
(***************************************************************************)
FlowsScenarios == {sc \in FinScenarios : sc[1][B1Key].state = "AUTHORIZED"}

\* The payloads that take the reconciler to the capture of the hold and to
\* the overcharge branch on this session, and one amount for each admin
\* action.
FlowsPayloads ==
    { [json_ok |-> TRUE, booking_id |-> "b1", final_amount_cents |-> a] :
        a \in {MaxAmount - 1, MaxAmount} }
FlowsAmounts(action) ==
    IF action \in {"void", "refund"} THEN {NullInt} ELSE {MaxAmount - 1}

FlowsInit ==
    /\ now = 0
    /\ StoreQuiet
    /\ \E sc \in FlowsScenarios :
          /\ sessions = sc[1]
          /\ holds = [p \in {"pay1"} |-> sc[2]]
    /\ charges = <<>>
    /\ queue = <<>>
    /\ fin = FinIdle
    /\ log = <<>>
    /\ dbErrors = 0
    /\ exit = "none"
    /\ settled = 0
    /\ PortalQuiet
    /\ AdminQuiet

\* One admin request meets the reconciler.
FlowsAdminIds == {1}

FlowsNext ==
    \/ \E p \in FlowsPayloads : Deliver(p) /\ UNCHANGED otherVars
    \/ FinGet /\ UNCHANGED otherVars
    \/ FinLookup /\ UNCHANGED otherVars
    \/ FinCancelCall /\ UNCHANGED otherVars
    \/ FinCaptureCall /\ UNCHANGED otherVars
    \/ FinChargeCall /\ UNCHANGED otherVars
    \/ FinMark /\ UNCHANGED otherVars
    \/ FinSleep /\ UNCHANGED otherVars
    \/ FinMarkFailed /\ UNCHANGED otherVars
    \/ FinTaskDone /\ UNCHANGED otherVars
    \/ \E a \in FlowsAdminIds, action \in AdminActions :
          \E amount \in FlowsAmounts(action) : AdminRead(a, action, amount)
    \/ \E a \in FlowsAdminIds, ok \in BOOLEAN : AdminGateway(a, ok)
    \/ \E a \in FlowsAdminIds : AdminMark(a)
    \/ \E a \in FlowsAdminIds : AdminAfter(a)
    \/ \E a \in FlowsAdminIds : AdminAudit(a)

SpecFlows == FlowsInit /\ [][FlowsNext]_vars

\* An admin capture and a reconciler run that both read the session while
\* it was AUTHORIZED, with the same pre-authorisation.
AdminCaptureOn(a) ==
    /\ adm[a].action = "capture"
    /\ adm[a].before.state = "AUTHORIZED"
BothOnAuthorized(a) ==
    /\ AdminCaptureOn(a)
    /\ fin.pc # "idle"
    /\ Found
    /\ fin.row.state = "AUTHORIZED"
    /\ fin.row.square_payment_id = adm[a].before.square_payment_id
FinCaptureCalls == {i \in DOMAIN log : log[i][1] = "capture"}
FinCaptureWon   == {i \in FinCaptureCalls : log[i][4]}

C37_WitnessReconcilerWon ==
    \E a \in AdminIds :
        /\ BothOnAuthorized(a)
        /\ adm[a].calls > 0 /\ ~adm[a].gw.ok
        /\ FinCaptureWon # {}

\* The states a successful gateway operation of another flow leaves.
GatewaySettled == {"CAPTURED", "CANCELED", "REFUNDED"}

\* The reconciler is about to write mark_failed on a row that it read before
\* another flow's gateway operation succeeded and was recorded.
StaleRun ==
    /\ fin.pc = "fail"
    /\ Found
    /\ fin.row.state \notin GatewaySettled
    /\ CurRow.state \in GatewaySettled

MaxBacklog == 2    \* finalize payloads waiting while one is handled

\* A well-formed payload for each branch of the reconciler, and an
\* ill-formed one.
ConsumerPayloads ==
    { [json_ok |-> TRUE, booking_id |-> "b1", final_amount_cents |-> a] :
        a \in {0, MaxAmount - 1, MaxAmount} }
    \cup { [json_ok |-> FALSE, booking_id |-> NULL, final_amount_cents |-> NullInt] }

\* mqtt on_message: queue.put_nowait(payload), whatever the consumer is doing.
DeliverBehind(p) ==
    /\ Len(queue) < MaxBacklog
    /\ queue' = Append(queue, p)
    /\ UNCHANGED <<storeVars, holds, charges, fin, log, dbErrors, exit, settled>>

ConsumerNext ==
    \/ \E p \in ConsumerPayloads : DeliverBehind(p) /\ UNCHANGED otherVars
    \/ FinGet /\ UNCHANGED otherVars
    \/ FinLookup /\ UNCHANGED otherVars
    \/ FinCancelCall /\ UNCHANGED otherVars
    \/ FinCaptureCall /\ UNCHANGED otherVars
    \/ FinChargeCall /\ UNCHANGED otherVars
    \/ FinMark /\ UNCHANGED otherVars
    \/ FinSleep /\ UNCHANGED otherVars
    \/ FinMarkFailed /\ UNCHANGED otherVars
    \/ FinTaskDone /\ UNCHANGED otherVars

SpecConsumer == FinInit /\ [][ConsumerNext]_vars

(***************************************************************************)
(* Claims about the consumer's loop and the overcharge branch.             *)
(***************************************************************************)
WellFormed(p) ==
    p.json_ok /\ ~Falsy(p.booking_id) /\ p.final_amount_cents # NullInt

\* A step that takes the head of the queue and starts handling it.
TakesHead ==
    /\ fin.pc = "idle"
    /\ queue # <<>>
    /\ queue' = Tail(queue)
    /\ IF WellFormed(Head(queue))
       THEN /\ fin'.pc = "lookup"
            /\ fin'.booking_id = Head(queue).booking_id
            /\ fin'.final = Head(queue).final_amount_cents
       ELSE fin'.pc = "done"
Arrives == \E p \in ConsumerPayloads : queue' = Append(queue, p)

\* C39: the consumer handles the messages one at a time in queue order: a
\* message leaves the queue only from its head and only while the consumer
\* is at rest, the consumer comes to rest only through the end of the
\* message it was handling, and it comes to rest after every message, also
\* one whose handling raised; at rest it can take the next message.
C39_OneAtATime ==
    /\ [](fin.pc = "idle" /\ queue # <<>> => ENABLED FinGet)
    /\ [][/\ queue' # queue => Arrives \/ TakesHead
          /\ fin'.pc = "idle" /\ fin.pc # "idle" => fin.pc = "done"
          /\ fin.pc = "done" /\ fin' # fin => fin' = FinIdle /\ queue' = queue
          /\ fin.pc \notin {"idle", "done"} /\ fin' # fin =>
                /\ fin'.pc # "idle"
                /\ fin'.booking_id = fin.booking_id
                /\ fin'.final = fin.final]_vars

\* The handling of a message raised out of mark_failed (the capture was made,
\* no store write succeeded), and the consumer is handling the next message
\* while another waits.
C39_Witness ==
    /\ fin.pc = "lookup"
    /\ "pay1" \in DOMAIN holds /\ holds["pay1"] = "COMPLETED"
    /\ sessions[B1Key].state = "AUTHORIZED"
    /\ queue # <<>>

\* Two messages wait while the handling of a third ends with an exception.
C39_WitnessWaiting ==
    /\ fin.pc = "done" /\ exit = "raise"
    /\ Len(queue) = MaxBacklog
    /\ queue[1] # queue[2]

\* The reconciler is in the overcharge branch on a session that has a payment
\* reference and no card or customer reference (a digital-wallet payment).
WalletOvercharge == OverchargeBranch /\ ~HasCardRefs

\* The check for the references has been made: the handler is at mark_failed
\* or beyond it.
RefsChecked == fin.pc \in {"fail", "done"}

\* C40: in the overcharge branch the card and customer references are looked
\* at only after the void attempts: on a session with a payment reference and
\* no card or customer reference the reconciler first calls the gateway to
\* cancel the pre-authorisation (until a call is accepted, which leaves the
\* hold cancelled, or the attempts are used up), only then writes mark_failed
\* with the text of the missing references, makes no charge, and leaves the
\* session FAILED.
C40_RefsCheckAfterVoid ==
    WalletOvercharge =>
        /\ CallsOf("charge") = {}
        /\ RefsChecked =>
              /\ CallsOf("cancel") # {}
              /\ \/ /\ OkCallsOf("cancel") # {}
                    /\ holds[fin.row.square_payment_id] = "CANCELED"
                 \/ VoidExhausted
              /\ \A i \in CallsOf("cancel"), j \in DOMAIN log :
                    log[j][1] = "db" => i < j
              /\ fin.error[1] = "overcharge: missing card_id or customer_id"
        /\ (Done /\ exit = "return") =>
              /\ CurRow.state = "FAILED"
              /\ log[Len(log)] = <<"db", "mark_failed", 0, TRUE>>

\* The check is reached: the second void attempt was accepted, the hold is
\* cancelled, the session is still AUTHORIZED and mark_failed is next.
C40_Witness ==
    /\ WalletOvercharge
    /\ fin.pc = "fail"
    /\ fin.row.state = "AUTHORIZED" /\ CurRow.state = "AUTHORIZED"
    /\ Cardinality(CallsOf("cancel")) = 2
    /\ OkCallsOf("cancel") # {}
    /\ holds[fin.row.square_payment_id] = "CANCELED"

\* The end of it: voided, nothing charged, the session FAILED.
C40_WitnessFailed ==
    /\ WalletOvercharge
    /\ Done /\ exit = "return"
    /\ fin.row.state = "AUTHORIZED" /\ CurRow.state = "FAILED"
    /\ Cardinality(CallsOf("cancel")) = 1 /\ OkCallsOf("cancel") # {}
    /\ charges = <<>>

=============================================================================
